---- MODULE Spec2Model ----
(***************************************************************************)
(* A model of the Mari PlayStation emulator core: the event scheduler,     *)
(* the interrupt controller, the CDROM command processor, the DMA          *)
(* controller's completion path and the CPU's branch-delay sequencing.     *)
(*                                                                         *)
(* Each subsystem has its own specification (SpecSched, SpecIntc, ...)     *)
(* over the shared variables; a specification leaves the variables of the  *)
(* other subsystems unchanged.                                             *)
(***************************************************************************)
EXTENDS Integers, Sequences, FiniteSets, TLC

(***************************************************************************)
(* Program constants                                                       *)
(***************************************************************************)

\* scheduler.cpp: the largest drain; Mari.cpp: the fixed quantum of run()
RUN_CYCLES == 64

\* gpu.cpp
CYCLES_PER_HDRAW == 2560

CYCLES_PER_SCANLINE == 3413

\* the CDROM's timings: INT3_TIME, and READ_TIME_SINGLE = CPU_SPEED / 75
\* with CPU_SPEED = 44100 * 0x300
INT3_TIME == 10000

READ_TIME_SINGLE == 451584

\* INT64_MAX, the "no event" value of cyclesUntilNextEvent.  TLC's integers
\* are 32 bits wide, so the model uses the largest value TLC can hold; every
\* cycle count of the model is far below it and it is only ever compared
\* with cycle counts and decremented by the quantum.
INT64_MAX == 2147483647

\* the GPU's frame: the scanline at which VBLANK starts, and the last one
SCANLINES_PER_VDRAW == 240

SCANLINES_PER_FRAME == 262

(***************************************************************************)
(* Bounds of the model                                                     *)
(***************************************************************************)

\* length of the staging queue
MaxStaged == 1

\* the transfer-end events one channel has scheduled at one time
MaxTransfers == 1

\* the instructions the CPU executes in one behaviour
MaxInstrs == 4

\* the CDROM events scheduled at one time, live and staged
MaxCdEvents == 4

\* the commands the program issues to the CDROM in one behaviour
MaxCdCommands == 2

\* the bytes of the CDROM's response FIFO the program has not read yet
MaxResponse == 9

\* the events init() schedules
MaxLive == 3

\* the instructions of one data-path program
MaxExec == 3

\* the quanta run() is followed for
MaxQuanta == 1000

\* the cycles the timers are stepped for
MaxTimerCycles == 80

\* the answers of the controller port that are scheduled or unread
MaxSioBytes == 5

VARIABLES
    \* --- scheduler.cpp ---
    events,                 \* std::deque<Event> events: the live queue
    nextEvents,             \* std::queue<Event> nextEvents: the staging queue
    cyclesUntilNextEvent,   \* the cached next deadline
    spc,                    \* where the main thread is: "init", "cpu"
                            \* (inside cpu::step/timer::step of run()), "proc"
                            \* (inside processEvents), "aborted" (an assert failed)
    it,                     \* processEvents' iterator, an index into events
    returned,               \* TRUE when the last thing the main thread did
                            \* was to return from processEvents
    lastFired,              \* the events whose callbacks ran in the current
                            \* (or, outside processEvents, the last) drain
    visits,                 \* how often the loop of the current (or last)
                            \* drain has visited each event init() scheduled;
                            \* init() numbers them in their params
    \* --- intc.cpp ---
    iMASK,                  \* I_MASK, as the set of its set bits
    iSTAT,                  \* I_STAT, as the set of its set bits
    intcAborted,            \* writeMask's assertion has failed
    \* --- COP0 ---
    extIntPending,          \* the external-interrupt line: the value last
                            \* passed to cop0::setInterruptPending
    \* --- what the last interrupt-controller operation was ---
    intcOp,                 \* [op, again, lineBefore]
    \* --- dmac.cpp ---
    dicr,                   \* DICR: [fi, im, mie, ip, mif], im and ip as sets
    chcrStr,                \* channels[c].chcr.str
    transferEnds,           \* per channel, the transfer-end events scheduled
    dmaOp,                  \* the last DMA operation:
                            \* [op, chn, mifBefore, ipBefore, sent]
    \* --- cpu.cpp and COP0 ---
    cpu,                    \* [pc, npc, cpc, ds0, ds1, run] and COP0's
                            \* [epc, bd, excode, badVAddr, iec, bev]; raised
                            \* tells whether the last step raised an exception
    icount,                 \* the instructions executed so far
    trace,                  \* the last instructions executed, oldest first:
                            \* [cpc, branch, taken, target, raised,
                            \* interrupted]
    \* --- the CDROM (in intc.cpp) ---
    iFlags,                 \* the interrupt flags, as the set of the set bits
    iEnable,                \* the interrupt enable mask, likewise
    stat,                   \* the status byte, likewise
    delivered,              \* the INTs sendIRQEvent delivered in the last
                            \* drain: [irq, flagsBefore]
    cmds,                   \* the commands the program has issued so far
    index,                  \* the register index
    responseFIFO,           \* std::queue<u8> responseFIFO
    cdExited,               \* the CDROM has ended the process: exit(0) on an
                            \* unhandled access, or a failed assertion
    cdOp,                   \* the last write to the command port 0x1F801801:
                            \* [index, data, clean, elapsed]: the index it
                            \* was made under, whether the response FIFO was
                            \* empty and the flags clear then and nothing has
                            \* been read or acknowledged since, and the cycles
                            \* drained since while that was so
    \* --- cpu.cpp: the register file; bus.cpp: memory; COP0 ---
    regs,                   \* regs[0..2]: $zero and two general registers
    mem,                    \* the first word of RAM and of the scratchpad
    isc,                    \* SR's cache-isolation bit
    execOp,                 \* the last instruction of the data path:
                            \* [op, a, b, dest, destBefore, memBefore, isc]
    \* --- Mari.cpp: run(); gpu.cpp; timer.cpp ---
    main,                   \* where run() is: [phase, quanta, n, aborted,
                            \* excs]: the part of the quantum, the quanta
                            \* completed, the instructions executed in this
                            \* one, whether an assertion has failed, whether
                            \* an exception was taken
    lineCounter,            \* the GPU's scanline counter
    timers,                 \* Timer timers[3]: [mode, count, comp, subcount,
                            \* prescaler, isPaused]
    \* --- sio.cpp ---
    state,                  \* JOYState state: "Idle", "SendID", "SendButtons"
    cmdLen,                 \* the bytes left in the current phase
    rxFIFO,                 \* std::queue<u8> rxFIFO
    keyState,               \* the button bitmap, a u16
    joyctrl,                \* JOY_CTRL: [raw, airq]
    joystat,                \* JOY_STAT: [rdy0, rdy1, ack, irq]
    sioAborted,             \* an assertion of write8 has failed
    sioOp,                  \* the last write to JOY_TX_FIFO: [nth, data,
                            \* before, lenBefore, slot1, keys, after, aborted,
                            \* acks, pushed]; it is the nth write since the
                            \* port was last Idle, the one made in Idle being
                            \* the first
    \* --- timer.cpp ---
    timerExited,            \* a write has reached exit(0)
    timerOp,                \* the last access to the timers: [op, tm, before,
                            \* sent, calls]: the timer, its mode before, and
                            \* for a step whether the timer sent its interrupt
                            \* and how often its sendInterrupt ran
    timerProg,              \* the last write to a T_MODE: [tm, mode, comp,
                            \* cycles, raised, exact, total]: the value
                            \* written, the value written to T_COMP after it,
                            \* the cycles stepped since, whether the timer has
                            \* sent its interrupt since, whether T_COMP was
                            \* written once, before any step, and T_COUNT
                            \* never, and the cycles stepped since init()
    \* --- gpu.cpp ---
    gpu,                    \* the GPU's registers: [state, argCount, cmd,
                            \* cmdParam, xyarea, xyoffset, texWindow,
                            \* dstCopyInfo, srcCopyInfo, drawMode, gpuread,
                            \* gpustat]
    vram,                   \* std::vector<u16> vram, as the function of its
                            \* non-zero cells, from x + 1024 * y
    gpuExited,              \* the process has ended in an access to the GPU
    gpuOp,                  \* the last access to GP0 or GPUREAD: [op, cmd,
                            \* nth, runs, reads, writes, pix, xyarea, fault]:
                            \* the opcode of the command the word belongs
                            \* to, the number of words written after the
                            \* command word, how often the command has been
                            \* executed, the indices of vram[] the access
                            \* read and wrote, the pixels it drew, the
                            \* drawing area it found, and whether the
                            \* process ended in it
    gpuStream,              \* the command being written: [words, runs,
                            \* owed]: its words so far, how often it has
                            \* been executed, and the words of a VRAM->CPU
                            \* copy still to be read
    \* --- bus.cpp ---
    ram,                    \* std::vector<u8> ram, as the function of its
                            \* non-zero bytes
    expRegs,                \* [exp1Base, exp1Size, exp2Base, exp2Size]
    busExited,              \* an access has reached exit(0)
    busOp,                  \* the last access to the bus and the one before
                            \* it: [op, addr, w, data, prev], data the value
                            \* written or the value read, prev the access
                            \* before as <<op, addr, w, data>>
    \* --- dmac.cpp, the transfers ---
    channels,               \* DMAChannel channels[]: [madr, size, count,
                            \* len, dir, dec, mod, fst] of each channel
    dpcr,                   \* u32 dpcr
    dmaAborted,             \* an assertion of a transfer has failed
    dmaXfer                 \* the transfer the last access to the DMA
                            \* controller has run, if the RAM has not been
                            \* written since: [chn, madr, size, mod, nodes,
                            \* sent, ended]: the channel (-1: none), MADR,
                            \* the block size and the mode it began with,
                            \* the nodes
                            \* of the list it visited as <<address, header,
                            \* payload>>, the words it gave to GP0, and
                            \* whether the process ended in it
    ,
    \* --- gte.cpp ---
    gte,                    \* the registers of the coprocessor: [v, rt, tr,
                            \* ir, mac, sxy, sz, ofx, ofy, h, dca, dcb]
    gteOp,                  \* the last access: [op, cmd, sums, divs], for
                            \* RTPT the sums of the last vector and the
                            \* three divisions as [a, b, sat, index, ub, n]
    gteExited,              \* a command has reached exit(0)
    gteAborted,             \* a read outside unrTable has ended the process
    gteCount,               \* the accesses to the coprocessor so far
    \* --- spu.cpp ---
    spu,                    \* [voices, kon, koff, spuen, unmute]: Voice
                            \* voices[], u32 kon, koff, and spucnt.spuen
                            \* and spucnt.unmute
    spuOp,                  \* the last thing the sound unit did: [op,
                            \* addr], a write or a step
    spuWrites               \* the writes to its registers so far

schedVars == <<events, nextEvents, cyclesUntilNextEvent, spc, it, returned,
              lastFired, visits>>

intcVars == <<iMASK, iSTAT, intcAborted, extIntPending, intcOp>>

dmaVars == <<dicr, chcrStr, transferEnds, dmaOp>>

cpuVars == <<cpu, icount, trace>>

cdVars == <<iFlags, iEnable, stat, delivered, cmds, index, responseFIFO,
           cdExited, cdOp>>

execVars == <<regs, mem, isc, execOp>>

runVars == <<main, lineCounter, timers>>

sioVars == <<state, cmdLen, rxFIFO, keyState, joyctrl, joystat, sioAborted,
            sioOp>>

timerVars == <<timerExited, timerOp, timerProg>>

gpuVars == <<gpu, vram, gpuExited, gpuOp, gpuStream>>

busVars == <<ram, expRegs, busExited, busOp>>

xferVars == <<channels, dpcr, dmaAborted, dmaXfer>>

gteVars == <<gte, gteOp, gteExited, gteAborted, gteCount>>

spuVars == <<spu, spuOp, spuWrites>>

\* the variables a scheduler action leaves alone
notSchedVars == <<intcVars, dmaVars, cpuVars, cdVars, execVars, runVars,
    sioVars,
    timerVars, gpuVars, busVars, xferVars, gteVars, spuVars>>

\* the variables an interrupt-controller action leaves alone
notIntcVars == <<schedVars, dmaVars, cpuVars, cdVars, execVars, runVars,
    sioVars,
    timerVars, gpuVars, busVars, xferVars, gteVars, spuVars>>

\* the variables a DMA action leaves alone (it may send an interrupt)
notDmaVars == <<schedVars, cpuVars, cdVars, execVars, runVars,
    sioVars,
    timerVars, gpuVars, busVars, xferVars, gteVars, spuVars>>

\* the variables a CPU action leaves alone
notCpuVars == <<schedVars, dmaVars, cdVars, execVars, runVars,
    sioVars,
    timerVars, gpuVars, busVars, xferVars, gteVars, spuVars>>

\* the variables a CDROM action leaves alone (it schedules events and may
\* send an interrupt)
notCdVars == <<dmaVars, cpuVars, execVars, runVars,
    sioVars,
    timerVars, gpuVars, busVars, xferVars, gteVars, spuVars>>

\* the variables an instruction of the data path leaves alone
notExecVars == <<schedVars, intcVars, dmaVars, cdVars, trace, runVars,
    sioVars,
    timerVars, gpuVars, busVars, xferVars, gteVars, spuVars>>

\* the variables a step of run() leaves alone
notRunVars == <<dmaVars, cdVars, execVars, icount, trace,
                spc, it, returned, lastFired, visits, intcAborted, intcOp,
                iMASK, sioVars,
    timerVars, gpuVars, busVars, xferVars, gteVars, spuVars>>

\* the variables a write to a timer or a read of one leaves alone
notTimerVars == <<schedVars, intcVars, dmaVars, cpuVars, cdVars, execVars,
                  sioVars, main, lineCounter, gpuVars, busVars, xferVars, gteVars, spuVars>>

\* the variables an access to the controller port leaves alone (it schedules
\* events)
notSioVars == <<intcVars, dmaVars, cpuVars, cdVars, execVars, runVars,
    timerVars, gpuVars, busVars, xferVars, gteVars, spuVars>>

\* the variables an access to the coprocessor leaves alone
notGteVars == <<schedVars, intcVars, dmaVars, cpuVars, cdVars, execVars,
                runVars, sioVars, timerVars, gpuVars, busVars, xferVars,
                spuVars>>

\* the variables a write to the sound unit or a step of it leaves alone
notSpuVars == <<schedVars, intcVars, dmaVars, cpuVars, cdVars, execVars,
                runVars, sioVars, timerVars, gpuVars, busVars, xferVars,
                gteVars>>

vars == <<schedVars, intcVars, dmaVars, cpuVars, cdVars, execVars, runVars,
          sioVars,
          timerVars, gpuVars, busVars, xferVars, gteVars, spuVars>>

(***************************************************************************)
(* Helpers                                                                 *)
(***************************************************************************)

RemoveAt(s, i) == [j \in 1..(Len(s) - 1) |-> IF j < i THEN s[j] ELSE s[j + 1]]

\* struct Event {id, param, cyclesUntilEvent}; fresh is not program state: it
\* records that addEvent was called during the processEvents call in progress
Event(id, param, cycles, fresh) ==
    [id |-> id, param |-> param, cyc |-> cycles, fresh |-> fresh]

\* the ids registerEvent() has handed out (two registered callbacks)
Ids == {0, 1}

Stale(q) == [i \in 1..Len(q) |-> [q[i] EXCEPT !.fresh = FALSE]]

\* delays with which init() functions schedule their events: one and two
\* quanta, and the GPU's scanline
InitDelays == {RUN_CYCLES, 2 * RUN_CYCLES, CYCLES_PER_SCANLINE}

\* delays with which callbacks and register writes schedule events
Delays == {0, RUN_CYCLES}


(***************************************************************************)
(* intc.cpp: the interrupt controller                                      *)
(***************************************************************************)

\* enum class Interrupt: the bit of each source in I_STAT and I_MASK
VBLANK == 0

GPUIRQ == 1

CDROM == 2

DMA == 3

PIO == 10

\* the sources whose requests the model sends
Sources == {VBLANK, GPUIRQ, CDROM, DMA, PIO}

\* the bits of 0x7FF and of 0x7F2
Bits7FF == 0..10

Bits7F2 == {1} \cup (4..10)

\* the values written to I_STAT and I_MASK: every combination of these bits
\* (bit 11 lies outside 0x7FF)
WrittenBits == {VBLANK, GPUIRQ, CDROM, DMA, PIO, 11}

\* cop0::setInterruptPending(irq): COP0 latches the level of the line
setInterruptPending(irq) == irq

\* checkInterrupt as it would be if it ignored I_MASK
checkInterruptUnmasked(st, mask) == setInterruptPending(st # {})

\* checkInterrupt(): the level published to COP0, iSTAT & iMASK as a bool
checkInterrupt(st, mask) == setInterruptPending((st \cap mask) # {})

\* writeStat as it would be if it set the written bits
writeStatSets(st, data) == st \cup (data \cap Bits7FF)

\* writeStat(data): iSTAT &= (data & 0x7FF)
writeStat(st, data) == st \cap (data \cap Bits7FF)

\* sendInterrupt(i): iSTAT |= 1 << i
sendInterrupt(st, i) == st \cup {i}

IntcInit ==
    /\ iMASK = {}
    /\ iSTAT = {}
    /\ intcAborted = FALSE
    /\ extIntPending = FALSE
    /\ intcOp = [op |-> "none", again |-> FALSE, lineBefore |-> FALSE]

\* a 16-bit write to I_MASK
WriteMask(data) ==
    /\ ~intcAborted
    /\ iMASK' = data \cap Bits7FF
    /\ IF (data \cap Bits7FF) \cap Bits7F2 # {}
       THEN \* assert(!(iMASK & 0x7F2)) fails
            /\ intcAborted' = TRUE
            /\ UNCHANGED <<extIntPending, intcOp>>
       ELSE /\ extIntPending' = checkInterrupt(iSTAT, data \cap Bits7FF)
            /\ intcOp' = [op |-> "writeMask", again |-> FALSE,
                          lineBefore |-> extIntPending]
            /\ UNCHANGED intcAborted
    /\ UNCHANGED iSTAT

\* a 16-bit write to I_STAT
WriteStat(data) ==
    /\ ~intcAborted
    /\ iSTAT' = writeStat(iSTAT, data)
    /\ extIntPending' = checkInterrupt(writeStat(iSTAT, data), iMASK)
    /\ intcOp' = [op |-> "writeStat", again |-> FALSE, lineBefore |-> extIntPending]
    /\ UNCHANGED <<iMASK, intcAborted>>

\* sendInterrupt(i), called by a peripheral
SendInterrupt(i) ==
    /\ ~intcAborted
    /\ iSTAT' = sendInterrupt(iSTAT, i)
    /\ extIntPending' = checkInterrupt(sendInterrupt(iSTAT, i), iMASK)
    /\ intcOp' = [op |-> "send", again |-> i \in iSTAT, lineBefore |-> extIntPending]
    /\ UNCHANGED <<iMASK, intcAborted>>

\* the three operations as the CPU and the peripherals perform them
IntcWriteMask ==
    \E data \in SUBSET WrittenBits : WriteMask(data) /\ UNCHANGED notIntcVars

IntcWriteStat ==
    \E data \in SUBSET WrittenBits : WriteStat(data) /\ UNCHANGED notIntcVars

IntcSend == \E i \in Sources : SendInterrupt(i) /\ UNCHANGED notIntcVars


(***************************************************************************)
(* dmac.cpp: the DMA controller's interrupt control and completion path    *)
(***************************************************************************)

\* enum class Channel: the channels the model runs
ChnGPU == 2

ChnOTC == 6

Channels == {ChnGPU, ChnOTC}

\* checkInterrupt as it would be if it sent on the level of MIF
dmacCheckInterruptLevel(d) ==
    LET mif == d.fi \/ (d.mie /\ (d.im \cap d.ip) # {}) IN
        [dicr |-> [d EXCEPT !.mif = mif], send |-> mif]

\* dmac::checkInterrupt(): recomputes MIF; send tells whether
\* intc::sendInterrupt(Interrupt::DMA) is called
dmacCheckInterrupt(d) ==
    LET mif == d.fi \/ (d.mie /\ (d.im \cap d.ip) # {}) IN
        [dicr |-> [d EXCEPT !.mif = mif], send |-> ~d.mif /\ mif]

\* the pending bits after a transfer end that ignored the mask
setPendingUnmasked(d, chnID) == [d EXCEPT !.ip = d.ip \cup {chnID}]

\* transferEndEvent: if (dicr.im & (1 << chnID)) dicr.ip |= 1 << chnID
setPending(d, chnID) ==
    IF chnID \in d.im THEN [d EXCEPT !.ip = d.ip \cup {chnID}] ELSE d

\* the DICR write: fi, im and mie are written, the written ip bits are
\* acknowledged
writeDICR(d, fi, im, mie, ack) ==
    [d EXCEPT !.fi = fi, !.im = im, !.mie = mie, !.ip = d.ip \ ack]

\* dicr and channels are zero-initialised
DmacInit ==
    /\ dicr = [fi |-> FALSE, im |-> {}, mie |-> FALSE, ip |-> {}, mif |-> FALSE]
    /\ chcrStr = [c \in Channels |-> FALSE]
    /\ transferEnds = [c \in Channels |-> 0]
    /\ dmaOp = [op |-> "none", chn |-> ChnGPU, mifBefore |-> FALSE,
                ipBefore |-> {}, sent |-> FALSE]

\* the end of checkInterrupt: the interrupt is sent or not
DmaSendOrNot(send) ==
    IF send THEN SendInterrupt(DMA) ELSE UNCHANGED intcVars

\* a write to D<c>_CHCR; run tells whether checkRunning finds the channel
\* requested (or forced) and enabled in DPCR, in which case the transfer is
\* done at once and its transfer-end event is scheduled
DmaWriteCHCR ==
    /\ UNCHANGED notDmaVars
    /\ \E c \in Channels, str \in BOOLEAN, run \in BOOLEAN :
          /\ chcrStr' = [chcrStr EXCEPT ![c] = str]
          /\ IF run /\ str
             THEN /\ transferEnds[c] < MaxTransfers
                  /\ transferEnds' = [transferEnds EXCEPT ![c] = @ + 1]
             ELSE UNCHANGED transferEnds
          /\ dmaOp' = [op |-> "writeCHCR", chn |-> c, mifBefore |-> dicr.mif,
                       ipBefore |-> dicr.ip, sent |-> FALSE]
    /\ UNCHANGED <<dicr, intcVars>>

\* a write to DICR
DmaWriteDICR ==
    /\ UNCHANGED notDmaVars
    /\ \E fi \in BOOLEAN, mie \in BOOLEAN, im \in SUBSET Channels,
          ack \in SUBSET Channels :
          LET r == dmacCheckInterrupt(writeDICR(dicr, fi, im, mie, ack)) IN
              /\ dicr' = r.dicr
              /\ DmaSendOrNot(r.send)
              /\ dmaOp' = [op |-> "writeDICR", chn |-> ChnGPU,
                           mifBefore |-> dicr.mif, ipBefore |-> dicr.ip,
                           sent |-> r.send]
    /\ UNCHANGED <<chcrStr, transferEnds>>

\* the scheduler fires a transfer-end event: transferEndEvent(chnID)
DmaTransferEnd ==
    /\ UNCHANGED notDmaVars
    /\ \E c \in Channels :
          /\ transferEnds[c] > 0
          /\ transferEnds' = [transferEnds EXCEPT ![c] = @ - 1]
          /\ chcrStr' = [chcrStr EXCEPT ![c] = FALSE]
          /\ LET r == dmacCheckInterrupt(setPending(dicr, c)) IN
                 /\ dicr' = r.dicr
                 /\ DmaSendOrNot(r.send)
                 /\ dmaOp' = [op |-> "transferEnd", chn |-> c,
                              mifBefore |-> dicr.mif, ipBefore |-> dicr.ip,
                              sent |-> r.send]


(***************************************************************************)
(* cpu.cpp: program counters, branch delay, exceptions                     *)
(*                                                                         *)
(* A 32-bit address is written as the integer with the same two's          *)
(* complement bit pattern: 0x80000000 and above are negative.              *)
(***************************************************************************)

\* 0xBFC00000
RESET_VECTOR == -1077936128

\* 0xBFC00180, the exception vector while BEV is set
VECTOR_BEV == -1077935744

\* 0x80000080, the exception vector otherwise
VECTOR_RAM == -2147483520

\* the BIOS A-function entry, which step() hooks
BIOS_A0 == 160

\* enum Exception
Interrupt == 0

LoadError == 4

SystemCall == 8

StoreError == 5

Overflow == 12

\* a + k and a - k on 32 bits, 0 <= k
Add32(a, k) ==
    IF a > 2147483647 - k
    THEN (a - 2147483647 - 1) + (k - 2147483647 - 1)
    ELSE a + k

Sub32(a, k) ==
    IF a < (k - 2147483647) - 1
    THEN (a + 2147483647 + 1) + (2147483647 - k + 1)
    ELSE a - k

\* the branch and jump targets of the modelled programs: 0, the hooked BIOS
\* entry, a word in RAM (0x80010000) and a misaligned address (0x80010002)
Targets == {0, BIOS_A0, -2147418112, -2147418110}

\* the instruction words fetched, by what they do: an instruction with no
\* effect on control, a branch or jump (cond: whether it is taken), a trap,
\* and an MTC0 to SR
Instrs ==
    {[op |-> "other"]}
    \cup {[op |-> "branch", target |-> t, cond |-> c] :
             t \in Targets, c \in BOOLEAN}
    \cup {[op |-> "trap", e |-> SystemCall]}
    \cup {[op |-> "mtc0", iec |-> i, bev |-> b] : i \in BOOLEAN, b \in BOOLEAN}

\* exit(0)
exit(m) == [m EXCEPT !.run = FALSE]

\* cop0::enterException(e): the exception code is written, interrupts are
\* disabled
enterException(m, e) == [m EXCEPT !.excode = e, !.iec = FALSE]

\* raiseException as it would be if it took every instruction to be outside
\* a delay slot
raiseExceptionNoSlot(m, e) ==
    LET vector == IF m.bev THEN VECTOR_BEV ELSE VECTOR_RAM
        x == enterException(m, e)
    IN  [x EXCEPT !.raised = TRUE,
                  !.bd = FALSE,
                  !.epc = m.cpc,
                  !.ds0 = FALSE,
                  !.ds1 = FALSE,
                  !.pc = vector,
                  !.npc = Add32(vector, 4)]

\* raiseException(e)
raiseException(m, e) ==
    LET vector == IF m.bev THEN VECTOR_BEV ELSE VECTOR_RAM
        x == enterException(m, e)
    IN  [x EXCEPT !.raised = TRUE,
                  !.bd = m.ds0,
                  !.epc = IF m.ds0 THEN Sub32(m.cpc, 4) ELSE m.cpc,
                  !.ds0 = FALSE,
                  !.ds1 = FALSE,
                  \* setPC(vector): the vector is neither 0 nor misaligned
                  !.pc = vector,
                  !.npc = Add32(vector, 4)]

\* setPC(addr)
setPC(m, addr) ==
    IF addr = 0 THEN exit(m)
    ELSE IF addr % 4 # 0
         THEN raiseException([m EXCEPT !.badVAddr = addr], LoadError)
         ELSE [m EXCEPT !.pc = addr, !.npc = Add32(addr, 4)]

\* setBranchPC as it would be if the jump took effect at once
setBranchPCNoDelay(m, addr) ==
    IF addr = 0 THEN exit(m)
    ELSE IF addr % 4 # 0
         THEN raiseException([m EXCEPT !.badVAddr = addr], LoadError)
         ELSE [m EXCEPT !.pc = addr, !.npc = Add32(addr, 4)]

\* setBranchPC(addr)
setBranchPC(m, addr) ==
    IF addr = 0 THEN exit(m)
    ELSE IF addr % 4 # 0
         THEN raiseException([m EXCEPT !.badVAddr = addr], LoadError)
         ELSE [m EXCEPT !.npc = addr]

\* stepPC()
stepPC(m) == [m EXCEPT !.pc = m.npc, !.npc = Add32(m.npc, 4)]

\* doBranch(target, isCond, rd), without the link register
doBranch(m, target, isCond) ==
    IF m.ds0 THEN exit(m)
    ELSE LET b == [m EXCEPT !.ds1 = TRUE] IN
             IF isCond THEN setBranchPC(b, target) ELSE b

\* decodeInstr(instr)
decodeInstr(m, instr) ==
    CASE instr.op = "other" -> m
      [] instr.op = "branch" -> doBranch(m, instr.target, instr.cond)
      [] instr.op = "trap" -> raiseException(m, instr.e)
      [] instr.op = "mtc0" -> [m EXCEPT !.iec = instr.iec, !.bev = instr.bev]

\* one iteration of step(): funct40 tells whether register t1 holds 0x40
stepOne(m, instr, funct40) ==
    LET a == [m EXCEPT !.cpc = m.pc, !.ds0 = m.ds1, !.ds1 = FALSE,
                       !.raised = FALSE] IN
        IF a.cpc = BIOS_A0 /\ funct40
        THEN exit(a)
        ELSE decodeInstr(stepPC(a), instr)

\* doInterrupt()
doInterrupt(m) ==
    raiseException([m EXCEPT !.cpc = m.pc, !.ds0 = m.ds1, !.ds1 = FALSE],
                   Interrupt)

\* cpu::init(): setPC(RESET_VECTOR); COP0 comes up with BEV set and
\* interrupts disabled
CpuInit ==
    /\ cpu = [pc |-> RESET_VECTOR, npc |-> Add32(RESET_VECTOR, 4), cpc |-> 0,
              ds0 |-> FALSE, ds1 |-> FALSE, run |-> TRUE,
              epc |-> 0, bd |-> FALSE, excode |-> 0, badVAddr |-> 0,
              iec |-> FALSE, bev |-> TRUE, raised |-> FALSE]
    /\ icount = 0
    /\ trace = <<>>

\* the last three instructions executed
Last3(t) == IF Len(t) > 3 THEN Tail(t) ELSE t

\* the CPU executes one instruction
CpuStep ==
    /\ UNCHANGED notCpuVars
    /\ UNCHANGED intcVars
    /\ cpu.run
    /\ icount < MaxInstrs
    /\ \E instr \in Instrs, funct40 \in BOOLEAN :
          /\ cpu' = stepOne(cpu, instr, funct40)
          /\ trace' =
                IF cpu.pc = BIOS_A0 /\ funct40
                THEN trace  \* the hook exits before the instruction
                ELSE Last3(Append(trace,
                       [cpc |-> cpu.pc,
                        branch |-> instr.op = "branch",
                        taken |-> instr.op = "branch" /\ instr.cond,
                        target |-> IF instr.op = "branch" THEN instr.target
                                   ELSE 0,
                        raised |-> stepOne(cpu, instr, funct40).raised,
                        interrupted |-> FALSE]))
    /\ icount' = icount + 1

\* between two instructions, COP0 finds the external interrupt asserted and
\* enabled and has the CPU take it
CpuInterrupt ==
    /\ UNCHANGED notCpuVars
    /\ UNCHANGED intcVars
    /\ cpu.run
    /\ extIntPending
    /\ cpu.iec
    /\ cpu' = doInterrupt(cpu)
    /\ trace' = IF trace = <<>> THEN trace
                ELSE [trace EXCEPT ![Len(trace)].interrupted = TRUE]
    /\ UNCHANGED icount

\* a frame ends: the GPU sends VBLANK
CpuVBlank ==
    /\ UNCHANGED notIntcVars
    /\ cpu.run
    /\ SendInterrupt(VBLANK)

\* the program enables or disables VBLANK in I_MASK
CpuWriteMask ==
    /\ UNCHANGED notIntcVars
    /\ cpu.run
    /\ \E data \in {{}, {VBLANK}} : WriteMask(data)

\* the program acknowledges VBLANK in I_STAT
CpuWriteStat ==
    /\ UNCHANGED notIntcVars
    /\ cpu.run
    /\ WriteStat(Bits7FF \ {VBLANK})

(***************************************************************************)
(* cpu.cpp: the data path (LUI, ADD, ADDI, SUB, the stores) and bus.cpp    *)
(*                                                                         *)
(* A register holds the integer with the same two's complement bit         *)
(* pattern as its 32 bits.                                                 *)
(***************************************************************************)

\* the registers of the modelled programs: $zero and two others
Regs == 0..2

\* the immediates of LUI: 0x7FFF, 0x8000 (KSEG0, RAM's base) and 0x1F80 (the
\* scratchpad's base)
LuiImms == {32767, -32768, 8064}

\* the immediates of ADDI, sign-extended
AddImms == {1, -1}

\* the offsets of the stores
StoreImms == {0, 1}

\* a + b and a - b on 32 bits
Wrap32Add(a, b) ==
    IF a >= 0 /\ b >= 0 /\ a > 2147483647 - b
    THEN (a - 2147483647 - 1) + (b - 2147483647 - 1)
    ELSE IF a < 0 /\ b < 0 /\ a < (-2147483647 - 1) - b
         THEN (a + 2147483647 + 1) + (b + 2147483647 + 1)
         ELSE a + b

Wrap32Sub(a, b) ==
    IF a >= 0 /\ b < 0 /\ a > 2147483647 + b
    THEN (a - 2147483647 - 1) - (b + 2147483647 + 1)
    ELSE IF a < 0 /\ b >= 0 /\ a < (-2147483647 - 1) + b
         THEN (a + 2147483647 + 1) - (b - 2147483647 - 1)
         ELSE a - b

\* x & (1 << 31)
Bit31(x) == x < 0

\* the four bytes of a word, least significant first, and back
Bytes(x) ==
    [j \in 0..3 |->
        CASE j = 0 -> x % 256
          [] j = 1 -> (x \div 256) % 256
          [] j = 2 -> (x \div 65536) % 256
          [] j = 3 -> (x \div 16777216) % 256]

FromBytes(b) ==
    b[0] + 256 * b[1] + 65536 * b[2]
         + 16777216 * (IF b[3] >= 128 THEN b[3] - 256 ELSE b[3])

\* addr & 0x1FFFFFFF, the physical address
Phys(addr) == addr % 536870912

\* the word of memory an address falls in: RAM's first word (physical 0),
\* the scratchpad's first word (physical 0x1F800000), or a word that is not
\* modelled
WordOf(addr) ==
    LET w == Phys(addr) - (Phys(addr) % 4) IN
        IF w = 0 THEN "ram"
        ELSE IF w = 528482304 THEN "spram" ELSE "none"

\* a write that does not clear register 0 afterwards
setPlain(r, idx, data) == [r EXCEPT ![idx] = data]

\* set(idx, data)
set(r, idx, data) == [[r EXCEPT ![idx] = data] EXCEPT ![0] = 0]

\* bus::read32 through cpu's read32
read32(mm, addr) == mm[WordOf(addr)]

\* bus::write8, write16 and write32 through cpu's write8, write16, write32
write8(mm, addr, data) ==
    LET w == WordOf(addr) IN
        [mm EXCEPT ![w] =
            FromBytes([Bytes(mm[w]) EXCEPT ![Phys(addr) % 4] = data])]

write16(mm, addr, lo, hi) ==
    LET w == WordOf(addr)
        k == Phys(addr) % 4
    IN  [mm EXCEPT ![w] =
            FromBytes([Bytes(mm[w]) EXCEPT ![k] = lo, ![k + 1] = hi])]

write32(mm, addr, data) == [mm EXCEPT ![WordOf(addr)] = data]

\* the beginning of an iteration of step(): cpc, the delay buffer, stepPC
fetchInstr(m) ==
    stepPC([m EXCEPT !.cpc = m.pc, !.ds0 = m.ds1, !.ds1 = FALSE,
                     !.raised = FALSE])

\* iLUI
iLUI(x, rt, imm) == [x EXCEPT !.regs = set(x.regs, rt, imm * 65536)]

\* iADD as it would be without the test for overflow
iADDWraps(x, rd, rs, rt) ==
    [x EXCEPT !.regs = set(x.regs, rd, Wrap32Add(x.regs[rs], x.regs[rt]))]

\* iADD
iADD(x, rd, rs, rt) ==
    LET a == x.regs[rs]
        b == x.regs[rt]
        res == Wrap32Add(a, b)
    IN  IF (Bit31(a) = Bit31(b)) /\ (Bit31(a) # Bit31(res))
        THEN [x EXCEPT !.cpu = raiseException(x.cpu, Overflow)]
        ELSE [x EXCEPT !.regs = set(x.regs, rd, res)]

\* iADDI
iADDI(x, rt, rs, imm) ==
    LET a == x.regs[rs]
        res == Wrap32Add(a, imm)
    IN  IF (Bit31(a) = Bit31(imm)) /\ (Bit31(a) # Bit31(res))
        THEN [x EXCEPT !.cpu = raiseException(x.cpu, Overflow)]
        ELSE [x EXCEPT !.regs = set(x.regs, rt, res)]

\* iSUB
iSUB(x, rd, rs, rt) ==
    LET a == x.regs[rs]
        b == x.regs[rt]
        res == Wrap32Sub(a, b)
    IN  IF (Bit31(a) # Bit31(b)) /\ (Bit31(a) # Bit31(res))
        THEN [x EXCEPT !.cpu = raiseException(x.cpu, Overflow)]
        ELSE [x EXCEPT !.regs = set(x.regs, rd, res)]

\* cop0::isCacheIsolated(): SR's cache-isolation bit
isCacheIsolated(x) == x.isc

\* iSB
iSB(x, rt, rs, imm) ==
    LET addr == Wrap32Add(x.regs[rs], imm)
        data == Bytes(x.regs[rt])[0]
    IN  IF isCacheIsolated(x) THEN x
        ELSE [x EXCEPT !.mem = write8(x.mem, addr, data)]

\* iSH
iSH(x, rt, rs, imm) ==
    LET addr == Wrap32Add(x.regs[rs], imm)
        data == Bytes(x.regs[rt])
    IN  IF addr % 2 # 0
        THEN [x EXCEPT !.cpu = raiseException(
                                  [x.cpu EXCEPT !.badVAddr = addr], StoreError)]
        ELSE IF isCacheIsolated(x) THEN x
             ELSE [x EXCEPT !.mem = write16(x.mem, addr, data[0], data[1])]

\* iSW
iSW(x, rt, rs, imm) ==
    LET addr == Wrap32Add(x.regs[rs], imm)
        data == x.regs[rt]
    IN  IF addr % 4 # 0
        THEN [x EXCEPT !.cpu = raiseException(
                                  [x.cpu EXCEPT !.badVAddr = addr], StoreError)]
        ELSE IF isCacheIsolated(x) THEN x
             ELSE [x EXCEPT !.mem = write32(x.mem, addr, data)]

\* iSWL: with k = addr & 3, bytes 0..k of the word become the top k + 1
\* bytes of rt ((old & (0xFFFFFF00 << 8k)) | (rt >> (24 - 8k)))
iSWL(x, rt, rs, imm) ==
    LET addr == Wrap32Add(x.regs[rs], imm)
        k == addr % 4
        old == Bytes(read32(x.mem, addr - k))
        r == Bytes(x.regs[rt])
        data == FromBytes([j \in 0..3 |->
                              IF j <= k THEN r[3 - k + j] ELSE old[j]])
    IN  [x EXCEPT !.mem = write32(x.mem, addr - k, data)]

\* iSWR: with k = addr & 3, bytes k..3 of the word become the low 4 - k
\* bytes of rt ((old & ~(~0 << 8k)) | (rt << 8k))
iSWR(x, rt, rs, imm) ==
    LET addr == Wrap32Add(x.regs[rs], imm)
        k == addr % 4
        old == Bytes(read32(x.mem, addr - k))
        r == Bytes(x.regs[rt])
        data == FromBytes([j \in 0..3 |->
                              IF j >= k THEN r[j - k] ELSE old[j]])
    IN  [x EXCEPT !.mem = write32(x.mem, addr - k, data)]

\* the instructions that store
Stores == {"SB", "SH", "SW", "SWL", "SWR"}

\* cpu::init() clears the registers; RAM and the scratchpad are zero-filled;
\* COP0 comes up with the cache not isolated
ExecInit ==
    /\ regs = [r \in Regs |-> 0]
    /\ mem = [w \in {"ram", "spram"} |-> 0]
    /\ isc = FALSE
    /\ execOp = [op |-> "none", a |-> 0, b |-> 0, dest |-> 0,
                 destBefore |-> 0, memBefore |-> mem, isc |-> FALSE]

\* the state the instructions of the data path work on
ExecState == [cpu |-> fetchInstr(cpu), regs |-> regs, mem |-> mem, isc |-> isc]

\* the state after an instruction
ExecDone(x, op, a, b, dest) ==
    /\ cpu' = x.cpu
    /\ regs' = x.regs
    /\ mem' = x.mem
    /\ icount' = icount + 1
    /\ execOp' = [op |-> op, a |-> a, b |-> b, dest |-> dest,
                  destBefore |-> regs[dest], memBefore |-> mem, isc |-> isc]

\* the program executes LUI
ExecLUI ==
    /\ UNCHANGED notExecVars
    /\ cpu.run
    /\ icount < MaxExec
    /\ UNCHANGED isc
    /\ \E rt \in Regs \ {0}, imm \in LuiImms :
          ExecDone(iLUI(ExecState, rt, imm), "LUI", 0, imm, rt)

\* the program executes ADD, ADDI or SUB
ExecArith ==
    /\ UNCHANGED notExecVars
    /\ cpu.run
    /\ icount < MaxExec
    /\ UNCHANGED isc
    /\ \E rd \in Regs \ {0}, rs \in Regs :
          \/ \E rt \in Regs :
                ExecDone(iADD(ExecState, rd, rs, rt), "ADD",
                         regs[rs], regs[rt], rd)
          \/ \E imm \in AddImms :
                ExecDone(iADDI(ExecState, rd, rs, imm), "ADDI",
                         regs[rs], imm, rd)
          \/ \E rt \in Regs :
                ExecDone(iSUB(ExecState, rd, rs, rt), "SUB",
                         regs[rs], regs[rt], rd)

\* the program executes a store to a modelled word
ExecStore ==
    /\ UNCHANGED notExecVars
    /\ cpu.run
    /\ icount < MaxExec
    /\ UNCHANGED isc
    /\ \E rt \in Regs, rs \in Regs, imm \in StoreImms, op \in Stores :
          /\ WordOf(Wrap32Add(regs[rs], imm)) # "none"
          /\ ExecDone(CASE op = "SB" -> iSB(ExecState, rt, rs, imm)
                        [] op = "SH" -> iSH(ExecState, rt, rs, imm)
                        [] op = "SW" -> iSW(ExecState, rt, rs, imm)
                        [] op = "SWL" -> iSWL(ExecState, rt, rs, imm)
                        [] op = "SWR" -> iSWR(ExecState, rt, rs, imm),
                      op, regs[rs], imm, rt)

\* the program executes MTC0 to SR, setting or clearing the isolation bit
ExecMTC0 ==
    /\ UNCHANGED notExecVars
    /\ cpu.run
    /\ icount < MaxExec
    /\ \E v \in BOOLEAN :
          /\ isc' = v
          /\ ExecDone(ExecState, "MTC0", 0, 0, 0)

\* the program executes LUI, ADD, ADDI or SUB with $zero as the destination
ExecZero ==
    /\ UNCHANGED notExecVars
    /\ cpu.run
    /\ icount < MaxExec
    /\ UNCHANGED isc
    /\ \/ \E imm \in LuiImms :
             ExecDone(iLUI(ExecState, 0, imm), "LUI", 0, imm, 0)
       \/ \E rs \in Regs, rt \in Regs :
             ExecDone(iADD(ExecState, 0, rs, rt), "ADD", regs[rs], regs[rt],
                      0)
       \/ \E rs \in Regs, imm \in AddImms :
             ExecDone(iADDI(ExecState, 0, rs, imm), "ADDI", regs[rs], imm, 0)
       \/ \E rs \in Regs, rt \in Regs :
             ExecDone(iSUB(ExecState, 0, rs, rt), "SUB", regs[rs], regs[rt],
                      0)

(***************************************************************************)
(* scheduler.cpp                                                           *)
(***************************************************************************)

RECURSIVE MinCycles(_, _)
\* reschedule(): the smallest cyclesUntilEvent of a queue, INT64_MAX if empty
MinCycles(q, acc) ==
    IF q = <<>> THEN acc
    ELSE MinCycles(Tail(q), IF Head(q).cyc < acc THEN Head(q).cyc ELSE acc)

reschedule(q) == MinCycles(q, INT64_MAX)

\* addEvent as it would be if it pushed onto the live queue
addEventLive(live, staged, id, param, cycles) ==
    [events     |-> Append(live, Event(id, param, cycles, TRUE)),
     nextEvents |-> staged]

\* addEvent(id, param, cyclesUntilEvent): the two queues after the call
addEvent(live, staged, id, param, cycles) ==
    [events     |-> live,
     nextEvents |-> Append(staged, Event(id, param, cycles, TRUE))]

\* removeEvent(id): the live queue after the call
removeEvent(q, id) == SelectSeq(q, LAMBDA e : e.id # id)

\* init(): Mari.cpp's init() runs scheduler::init() first, then the
\* peripherals' init() functions, which call addEvent, then flush()
SchedInit ==
    /\ events = <<>>
    /\ nextEvents = <<>>
    /\ cyclesUntilNextEvent = INT64_MAX
    /\ spc = "init"
    /\ it = 0
    /\ returned = FALSE
    /\ lastFired = <<>>
    /\ visits = [t \in 1..MaxLive |-> 0]

\* a peripheral's init() schedules an event of the id it registered, with the
\* event's number as its param; the peripherals are initialised in the order
\* of their ids
InitAddEvent ==
    /\ UNCHANGED notSchedVars
    /\ spc = "init"
    /\ Len(nextEvents) < MaxLive
    /\ \E id \in Ids, d \in InitDelays :
           /\ \A i \in 1..Len(nextEvents) : nextEvents[i].id <= id
           /\ LET r == addEvent(events, nextEvents, id,
                                Len(nextEvents) + 1, d) IN
                  /\ events' = r.events
                  /\ nextEvents' = r.nextEvents
    /\ UNCHANGED <<cyclesUntilNextEvent, spc, it, returned, lastFired, visits>>

\* flush(), called at the end of Mari.cpp's init()
Flush ==
    /\ UNCHANGED notSchedVars
    /\ spc = "init"
    /\ events' = events \o nextEvents
    /\ nextEvents' = <<>>
    /\ cyclesUntilNextEvent' = reschedule(events \o nextEvents)
    /\ spc' = "cpu"
    /\ UNCHANGED <<it, returned, lastFired, visits>>

\* a register write made by the CPU during its quantum schedules an event
CpuAddEvent ==
    /\ UNCHANGED notSchedVars
    /\ spc = "cpu"
    /\ Len(nextEvents) < MaxStaged
    /\ \E id \in Ids, d \in Delays :
           LET r == addEvent(events, nextEvents, id, 0, d) IN
               /\ events' = r.events
               /\ nextEvents' = r.nextEvents
    /\ returned' = FALSE
    /\ UNCHANGED <<cyclesUntilNextEvent, spc, it, lastFired, visits>>

\* a register write made by the CPU during its quantum cancels an id
CpuRemoveEvent ==
    /\ UNCHANGED notSchedVars
    /\ spc = "cpu"
    /\ \E id \in Ids :
           /\ \E i \in 1..Len(events) : events[i].id = id
           /\ events' = removeEvent(events, id)
    /\ returned' = FALSE
    /\ UNCHANGED <<nextEvents, cyclesUntilNextEvent, spc, it, lastFired, visits>>

\* processEvents(RUN_CYCLES), lines 91-93: the entry assertion and the
\* decrement of the cached deadline
ProcessBegin ==
    /\ UNCHANGED notSchedVars
    /\ spc = "cpu"
    /\ IF events = <<>>
       THEN /\ spc' = "aborted"
            /\ UNCHANGED <<events, nextEvents, cyclesUntilNextEvent, it, returned, lastFired, visits>>
       ELSE /\ cyclesUntilNextEvent' = cyclesUntilNextEvent - RUN_CYCLES
            /\ it' = 1
            /\ spc' = "proc"
            /\ returned' = FALSE
            /\ lastFired' = <<>>
            /\ visits' = [t \in 1..MaxLive |-> 0]
            /\ events' = Stale(events)
            /\ nextEvents' = Stale(nextEvents)

\* what a callback does with the scheduler: nothing, one addEvent, or
\* removeEvent of its own id
CallbackCalls ==
    {[op |-> "none"], [op |-> "remove"]}
    \cup {[op |-> "add", id |-> id, cyc |-> d] : id \in Ids, d \in Delays}

\* processEvents, lines 95-111: one iteration of the loop.  When the callback
\* has removeEvent erase live events, the iterator of the loop is invalid
\* (std::deque::erase) and may come to stand at any position of the queue.
ProcessVisit ==
    /\ UNCHANGED notSchedVars
    /\ spc = "proc"
    /\ it <= Len(events)
    /\ visits' = [visits EXCEPT ![events[it].param] = @ + 1]
    /\ LET c == events[it].cyc - RUN_CYCLES IN
       IF c < 0
       THEN \* assert(event->cyclesUntilEvent >= 0) fails after the decrement
            /\ events' = [events EXCEPT ![it].cyc = c]
            /\ spc' = "aborted"
            /\ UNCHANGED <<nextEvents, cyclesUntilNextEvent, it, returned, lastFired>>
       ELSE IF c = 0
       THEN \* erase the event, then run its callback
            /\ lastFired' = Append(lastFired, [events[it] EXCEPT !.cyc = c])
            /\ \E call \in CallbackCalls :
                  LET erased == RemoveAt(events, it)
                      removed == removeEvent(erased, events[it].id)
                  IN  CASE call.op = "none" ->
                             /\ events' = erased
                             /\ UNCHANGED <<nextEvents, it>>
                        [] call.op = "add" ->
                             /\ Len(nextEvents) < MaxStaged
                             /\ LET r == addEvent(erased, nextEvents,
                                                  call.id, 0, call.cyc)
                                IN  /\ events' = r.events
                                    /\ nextEvents' = r.nextEvents
                             /\ UNCHANGED it
                        [] call.op = "remove" ->
                             /\ events' = removed
                             /\ UNCHANGED nextEvents
                             /\ IF Len(removed) = Len(erased)
                                THEN UNCHANGED it
                                ELSE it' \in 1..(Len(removed) + 1)
            /\ UNCHANGED <<cyclesUntilNextEvent, spc, returned>>
       ELSE /\ events' = [events EXCEPT ![it].cyc = c]
            /\ it' = it + 1
            /\ UNCHANGED <<nextEvents, cyclesUntilNextEvent, spc, returned, lastFired>>

\* processEvents, line 112: the loop is over and the function returns
ProcessReturn ==
    /\ UNCHANGED notSchedVars
    /\ spc = "proc"
    /\ it > Len(events)
    /\ spc' = "cpu"
    /\ returned' = TRUE
    /\ UNCHANGED <<events, nextEvents, cyclesUntilNextEvent, it, lastFired, visits>>

SchedNext ==
    \/ InitAddEvent
    \/ Flush
    \/ CpuAddEvent
    \/ CpuRemoveEvent
    \/ ProcessBegin
    \/ ProcessVisit
    \/ ProcessReturn



(***************************************************************************)
(* The CDROM command processor (in intc.cpp) on the scheduler              *)
(***************************************************************************)

\* the id cdrom::init() gets from registerEvent, the first to register
idSendIRQ == 0

\* enum class Status: the bits of Read, Seek and Play
StatRead == 5

StatSeek == 6

StatPlay == 7

RECURSIVE StatByte(_)
\* a register kept as the set of its set bits, as the u8 it is
StatByte(bits) ==
    IF bits = {} THEN 0
    ELSE LET b == CHOOSE x \in bits : TRUE
         IN  2 ^ b + StatByte(bits \ {b})

\* enum Command: GetID, ReadN, Pause
CmdGetID == 26

CmdReadN == 6

CmdPause == 9

\* the bits of an INT number, (u8)irq
IrqBits(irq) ==
    CASE irq = 1 -> {0}
      [] irq = 2 -> {1}
      [] irq = 3 -> {0, 1}

\* sendIRQEvent(irq) on w = [iFlags, iSTAT, nextEvents]: the flags are ORed
\* in, the CDROM interrupt is sent if an enabled flag is set, INT1 schedules
\* the next INT1
sendIRQEvent(w, irq) ==
    LET flags == w.iFlags \cup IrqBits(irq)
        sent == IF iEnable \cap flags # {}
                THEN sendInterrupt(w.iSTAT, CDROM) ELSE w.iSTAT
        staged == IF irq = 1
                  THEN addEvent(<<>>, w.nextEvents, idSendIRQ, 1,
                                READ_TIME_SINGLE).nextEvents
                  ELSE w.nextEvents
    IN  [w EXCEPT !.iFlags = flags, !.iSTAT = sent, !.nextEvents = staged,
                  !.responseFIFO = IF irq = 1 THEN Append(@, StatByte(stat))
                                   ELSE @,
                  !.delivered = Append(@, [irq |-> irq,
                                           flagsBefore |-> w.iFlags])]

\* the drain of the live queue q after elapsed cycles: every event is
\* decremented; one whose counter has reached zero is removed and its
\* callback runs; the others stay, in order
RECURSIVE drain(_, _, _)
drain(q, elapsed, w) ==
    IF q = <<>> THEN w
    ELSE LET e == Head(q)
             c == e.cyc - elapsed
         IN  IF c <= 0
             THEN drain(Tail(q), elapsed,
                        sendIRQEvent([w EXCEPT !.fired = Append(@, e)],
                                     e.param))
             ELSE drain(Tail(q), elapsed,
                        [w EXCEPT !.events = Append(@, [e EXCEPT !.cyc = c])])

\* cmdGetID() as it would be if the INT3 came as late as the INT2
cmdGetIDLate(s) ==
    LET a == addEvent(s.events, s.nextEvents, idSendIRQ, 3, INT3_TIME + 30000)
        b == addEvent(a.events, a.nextEvents, idSendIRQ, 2, INT3_TIME + 30000)
    IN  [s EXCEPT !.events = b.events, !.nextEvents = b.nextEvents,
                  !.responseFIFO = @ \o <<StatByte(s.stat), 2, 0, 32, 0,
                                          77, 65, 82, 73>>]

\* cmdGetID(): the status and the ID are pushed; INT3, then INT2 30000 cycles
\* later
cmdGetID(s) ==
    LET a == addEvent(s.events, s.nextEvents, idSendIRQ, 3, INT3_TIME)
        b == addEvent(a.events, a.nextEvents, idSendIRQ, 2, INT3_TIME + 30000)
    IN  [s EXCEPT !.events = b.events, !.nextEvents = b.nextEvents,
                  !.responseFIFO = @ \o <<StatByte(s.stat), 2, 0, 32, 0,
                                          77, 65, 82, 73>>]

\* cmdReadN(): INT3, then the first INT1; the drive reads
cmdReadN(s) ==
    LET a == addEvent(s.events, s.nextEvents, idSendIRQ, 3, INT3_TIME)
        b == addEvent(a.events, a.nextEvents, idSendIRQ, 1,
                      INT3_TIME + READ_TIME_SINGLE)
    IN  [s EXCEPT !.events = b.events, !.nextEvents = b.nextEvents,
                  !.responseFIFO = Append(@, StatByte(s.stat)),
                  !.stat = (s.stat \ {StatSeek}) \cup {StatRead}]

\* cmdPause(): removeEvent(idSendIRQ), then INT3 and INT2, the INT2 later if
\* the drive was playing or reading; the drive stops.  Every event that
\* outlives removeEvent is marked as older than the Pause.
cmdPause(s) ==
    LET a == addEvent(Stale(removeEvent(s.events, idSendIRQ)),
                      Stale(s.nextEvents), idSendIRQ, 3, INT3_TIME)
        b == addEvent(a.events, a.nextEvents, idSendIRQ, 2,
                      IF s.stat \cap {StatPlay, StatRead} = {}
                      THEN INT3_TIME + 10000
                      ELSE INT3_TIME + 5 * READ_TIME_SINGLE)
    IN  [s EXCEPT !.events = b.events, !.nextEvents = b.nextEvents,
                  !.responseFIFO = <<StatByte(s.stat),
                                     StatByte(s.stat \ {StatPlay, StatRead})>>,
                  !.stat = s.stat \ {StatPlay, StatRead}]

\* doCmd(data)
doCmd(s, cmd) ==
    CASE cmd = CmdGetID -> cmdGetID(s)
      [] cmd = CmdReadN -> cmdReadN(s)
      [] cmd = CmdPause -> cmdPause(s)

\* write(0x1F801801, data): the command register under index 0, a volume
\* register under index 3, exit(0) under the other two
writeCommandPort(s, data) ==
    CASE s.index = 0 -> doCmd(s, data)
      [] s.index = 3 -> s
      [] OTHER -> [s EXCEPT !.exited = TRUE]

\* the CDROM's registers are zero-initialised
CdInit ==
    /\ iFlags = {}
    /\ iEnable = {}
    /\ stat = {}
    /\ delivered = <<>>
    /\ cmds = 0
    /\ index = 0
    /\ responseFIFO = <<>>
    /\ cdExited = FALSE
    /\ cdOp = [index |-> 0, data |-> 0, clean |-> FALSE, elapsed |-> 0]

\* the values the program writes to the index register
IndexWrites == {0, 1}

\* the program writes the index register: index = data & 3
CdWriteIndex ==
    /\ UNCHANGED notCdVars
    /\ UNCHANGED intcVars
    /\ UNCHANGED schedVars
    /\ spc = "cpu"
    /\ ~cdExited
    /\ \E data \in IndexWrites :
          /\ data % 4 # index
          /\ index' = data % 4
    /\ UNCHANGED <<iFlags, iEnable, stat, delivered, cmds, responseFIFO,
                   cdExited, cdOp>>

\* the program writes a command to the port 0x1F801801
CdCommand ==
    /\ UNCHANGED notCdVars
    /\ UNCHANGED intcVars
    /\ spc = "cpu"
    /\ ~cdExited
    /\ cmds < MaxCdCommands
    /\ cmds' = cmds + 1
    /\ Len(events) + Len(nextEvents) + 2 <= MaxCdEvents
    /\ \E cmd \in {CmdGetID, CmdReadN, CmdPause} :
          LET r == writeCommandPort(
                       [events |-> events, nextEvents |-> nextEvents,
                        stat |-> stat, responseFIFO |-> responseFIFO,
                        index |-> index, exited |-> FALSE], cmd) IN
              /\ Len(r.responseFIFO) <= MaxResponse
              /\ events' = r.events
              /\ nextEvents' = r.nextEvents
              /\ stat' = r.stat
              /\ responseFIFO' = r.responseFIFO
              /\ cdExited' = r.exited
              /\ cdOp' = [index |-> index, data |-> cmd,
                          clean |-> responseFIFO = <<>> /\ iFlags = {},
                          elapsed |-> 0]
    /\ UNCHANGED <<cyclesUntilNextEvent, spc, it, returned, lastFired, visits>>
    /\ UNCHANGED <<iFlags, iEnable, delivered, index>>

\* the program acknowledges interrupt flags, at 0x1F801803 under index 1:
\* iFlags &= (~data & 0x1F)
CdWriteIF ==
    /\ UNCHANGED notCdVars
    /\ UNCHANGED intcVars
    /\ UNCHANGED schedVars
    /\ spc = "cpu"
    /\ ~cdExited
    /\ index = 1
    /\ \E data \in {{0, 1, 2}} : iFlags' = iFlags \cap ((0..4) \ data)
    /\ cdOp' = [cdOp EXCEPT !.clean = FALSE, !.elapsed = 0]
    /\ UNCHANGED <<iEnable, stat, delivered, cmds, index, responseFIFO,
                   cdExited>>

\* the program writes the interrupt enable mask, at 0x1F801802 under index
\* 1: iEnable = data & 0x1F
CdWriteIE ==
    /\ UNCHANGED notCdVars
    /\ UNCHANGED intcVars
    /\ UNCHANGED schedVars
    /\ spc = "cpu"
    /\ ~cdExited
    /\ index = 1
    /\ \E data \in {{}, {0, 1, 2, 3, 4, 5}} : iEnable' = data \cap (0..4)
    /\ UNCHANGED <<iFlags, stat, delivered, cmds, index, responseFIFO,
                   cdExited, cdOp>>

\* the program reads the response register: readResponse() pops the front
\* of the FIFO, and its assertion fails on an empty one
CdReadResponse ==
    /\ UNCHANGED notCdVars
    /\ UNCHANGED intcVars
    /\ UNCHANGED schedVars
    /\ spc = "cpu"
    /\ ~cdExited
    /\ IF responseFIFO = <<>>
       THEN cdExited' = TRUE /\ UNCHANGED responseFIFO
       ELSE responseFIFO' = Tail(responseFIFO) /\ UNCHANGED cdExited
    /\ cdOp' = [cdOp EXCEPT !.clean = FALSE, !.elapsed = 0]
    /\ UNCHANGED <<iFlags, iEnable, stat, delivered, cmds, index>>

\* the quanta that pass until the program next touches the CDROM: one while
\* there are staged events, else as many as the earliest live event needs
Quanta ==
    IF nextEvents # <<>> \/ events = <<>> THEN 1
    ELSE (reschedule(events) + RUN_CYCLES - 1) \div RUN_CYCLES

\* processEvents(RUN_CYCLES) at the end of each of these quanta: only the
\* last one finds events to fire, and the first one merges the staged events;
\* after the drain the staging queue is merged into the live queue and the
\* next deadline is recomputed
CdDrain ==
    /\ UNCHANGED notCdVars
    /\ spc = "cpu"
    /\ ~cdExited
    /\ events # <<>> \/ nextEvents # <<>>
    /\ LET w == drain(events, Quanta * RUN_CYCLES,
                      [events |-> <<>>, nextEvents |-> nextEvents,
                       iFlags |-> iFlags, iSTAT |-> iSTAT,
                       responseFIFO |-> responseFIFO,
                       fired |-> <<>>, delivered |-> <<>>])
       IN  /\ Len(w.responseFIFO) <= MaxResponse
           /\ responseFIFO' = w.responseFIFO
           /\ events' = w.events \o w.nextEvents
           /\ nextEvents' = <<>>
           /\ cyclesUntilNextEvent' = reschedule(w.events \o w.nextEvents)
           /\ lastFired' = w.fired
           /\ UNCHANGED visits
           /\ delivered' = w.delivered
           /\ iFlags' = w.iFlags
           /\ iSTAT' = w.iSTAT
           /\ extIntPending' = checkInterrupt(w.iSTAT, iMASK)
           /\ intcOp' = IF w.iSTAT = iSTAT THEN intcOp
                        ELSE [op |-> "send", again |-> FALSE,
                              lineBefore |-> extIntPending]
    /\ returned' = TRUE
    /\ cdOp' = [cdOp EXCEPT !.elapsed =
                    IF ~cdOp.clean \/ @ >= INT3_TIME + 30000 THEN @
                    ELSE @ + Quanta * RUN_CYCLES]
    /\ UNCHANGED <<spc, it, iEnable, stat, cmds, iMASK, intcAborted, index,
                   cdExited>>

(***************************************************************************)
(* Mari.cpp: init() and run() on a BIOS whose reset vector jumps to itself *)
(***************************************************************************)

\* the handles registerEvent gives the GPU: the CDROM and the DMA controller
\* register before it
idHBLANK == 2

idScanline == 3

\* the BIOS image: J 0xBFC00000 at the reset vector, zeroes (SLL $zero, $zero,
\* 0) everywhere else
Bios(addr) ==
    IF addr = RESET_VECTOR
    THEN [op |-> "branch", target |-> RESET_VECTOR, cond |-> TRUE]
    ELSE [op |-> "other"]

\* struct Mode, zero-initialised
ModeZero ==
    [gate |-> FALSE, gats |-> 0, zret |-> FALSE, cmpe |-> FALSE,
     ovfe |-> FALSE, rept |-> FALSE, levl |-> FALSE, clks |-> 0,
     intf |-> FALSE, equf |-> FALSE, ovff |-> FALSE]

\* struct Timer, zero-initialised
TimerZero ==
    [mode |-> ModeZero, count |-> 0, comp |-> 0, subcount |-> 0,
     prescaler |-> 0, isPaused |-> FALSE]

\* timer.cpp's sendInterrupt(tmID) on x = [t, sent, calls]: the interrupt is
\* sent if intf is set; intf is then toggled in repeat and level mode and
\* cleared otherwise; calls counts the calls
timerSendInterrupt(x) ==
    [t    |-> [x.t EXCEPT !.mode.intf =
                  IF x.t.mode.rept /\ x.t.mode.levl THEN ~@ ELSE FALSE],
     sent |-> x.sent \/ x.t.mode.intf,
     calls |-> x.calls + 1]

\* one turn of the loop of step(): the counter ticks, an enabled overflow
\* and an enabled compare match set their flags and call sendInterrupt, a
\* match returns the counter to zero under zret, and the counter is cut to
\* 16 bits
timerTick(x) ==
    LET t0 == [x.t EXCEPT !.count = @ + 1]
        x1 == IF t0.count >= 65536 /\ t0.mode.ovfe /\ ~t0.mode.ovff
              THEN timerSendInterrupt([x EXCEPT !.t = [t0 EXCEPT
                                                        !.mode.ovff = TRUE]])
              ELSE [x EXCEPT !.t = t0]
        eq == x1.t.count = x1.t.comp
        x2 == IF eq /\ x1.t.mode.cmpe /\ ~x1.t.mode.equf
              THEN timerSendInterrupt([x1 EXCEPT !.t.mode.equf = TRUE])
              ELSE x1
        x3 == IF eq /\ x2.t.mode.zret THEN [x2 EXCEPT !.t.count = 0] ELSE x2
    IN  [x3 EXCEPT !.t.count = @ % 65536,
                   !.t.subcount = @ - x3.t.prescaler]

\* the loop of step(): while (timer.subcount > timer.prescaler)
RECURSIVE timerCount(_)
timerCount(x) ==
    IF x.t.subcount > x.t.prescaler THEN timerCount(timerTick(x)) ELSE x

\* timer::step(c) for timer i: timers 0 and 1 are skipped under an odd clock
\* source, a paused timer is skipped; the result is [t, sent, calls], the
\* timer, whether its interrupt was sent and how often sendInterrupt ran
timerStep(t, c, i) ==
    IF (t.mode.clks % 2 = 1 /\ i \in {0, 1}) \/ t.isPaused
    THEN [t |-> t, sent |-> FALSE, calls |-> 0]
    ELSE timerCount([t     |-> [t EXCEPT !.subcount = (@ + c) % 65536],
                     sent  |-> FALSE,
                     calls |-> 0])

\* the loop of processEvents from the i-th live event on, with the GPU's
\* callbacks: w is [events, nextEvents, lineCounter, iSTAT, aborted]
RECURSIVE processEvents(_, _, _)
processEvents(w, i, elapsed) ==
    IF i > Len(w.events) THEN w
    ELSE LET c == w.events[i].cyc - elapsed
             id == w.events[i].id
         IN  IF c < 0
             THEN \* assert(event->cyclesUntilEvent >= 0)
                  [w EXCEPT !.events[i].cyc = c, !.aborted = TRUE]
             ELSE IF c # 0
             THEN processEvents([w EXCEPT !.events[i].cyc = c], i + 1, elapsed)
             ELSE LET erased == [w EXCEPT !.events = RemoveAt(w.events, i)]
                      line == w.lineCounter + 1
                      \* hblankEvent(c), scanlineEvent(c)
                      called ==
                          IF id = idHBLANK
                          THEN erased
                          ELSE [erased EXCEPT
                                  !.lineCounter =
                                      IF line = SCANLINES_PER_FRAME THEN 0
                                      ELSE line,
                                  !.iSTAT =
                                      IF line = SCANLINES_PER_VDRAW
                                      THEN sendInterrupt(w.iSTAT, VBLANK)
                                      ELSE w.iSTAT]
                      added == addEvent(called.events, called.nextEvents,
                                        id, 0, CYCLES_PER_SCANLINE + c)
                  IN  processEvents([called EXCEPT
                                       !.events = added.events,
                                       !.nextEvents = added.nextEvents],
                                    i, elapsed)

\* before init()
RunInit ==
    /\ main = [phase |-> "init", quanta |-> 0, n |-> 0, aborted |-> FALSE,
               excs |-> FALSE]
    /\ lineCounter = 0
    /\ timers = [i \in 0..2 |-> TimerZero]

\* init(): timer::init() sets the prescalers, gpu::init() schedules the first
\* HBLANK and the first scanline, and flush() makes them live
RunStart ==
    /\ UNCHANGED notRunVars
    /\ main.phase = "init"
    /\ timers' = [i \in 0..2 |-> [timers[i] EXCEPT !.prescaler = 1]]
    /\ LET a == addEvent(events, nextEvents, idHBLANK, 0, CYCLES_PER_HDRAW)
           b == addEvent(a.events, a.nextEvents,
                         idScanline, 0, CYCLES_PER_SCANLINE)
           live == b.events \o b.nextEvents
       IN  /\ events' = live
           /\ nextEvents' = <<>>
           /\ cyclesUntilNextEvent' = reschedule(live)
    /\ main' = [main EXCEPT !.phase = "cpu"]
    /\ UNCHANGED <<cpu, lineCounter, iSTAT, extIntPending>>

\* run(): one instruction of cpu::step(RUN_CYCLES >> 1)
RunCpuStep ==
    /\ UNCHANGED notRunVars
    /\ main.phase = "cpu"
    /\ cpu.run
    /\ LET m == stepOne(cpu, Bios(cpu.pc), FALSE) IN
          /\ cpu' = m
          /\ main' = [main EXCEPT
                        !.n = IF main.n + 1 = RUN_CYCLES \div 2 THEN 0
                              ELSE main.n + 1,
                        !.phase = IF main.n + 1 = RUN_CYCLES \div 2
                                  THEN "timer" ELSE "cpu",
                        !.excs = main.excs \/ m.raised]
    /\ UNCHANGED <<events, nextEvents, cyclesUntilNextEvent, lineCounter,
                   timers, iSTAT, extIntPending>>

\* run(): timer::step(RUN_CYCLES); no timer has been programmed, so none
\* sends an interrupt
RunTimerStep ==
    /\ UNCHANGED notRunVars
    /\ main.phase = "timer"
    /\ timers' = [i \in 0..2 |-> timerStep(timers[i], RUN_CYCLES, i).t]
    /\ main' = [main EXCEPT !.phase = "sched"]
    /\ UNCHANGED <<events, nextEvents, cyclesUntilNextEvent, lineCounter,
                   cpu, iSTAT, extIntPending>>

\* run(): scheduler::processEvents(RUN_CYCLES)
RunProcessEvents ==
    /\ UNCHANGED notRunVars
    /\ main.phase = "sched"
    /\ main.quanta < MaxQuanta
    /\ IF events = <<>>
       THEN \* assert(!events.empty())
            /\ main' = [main EXCEPT !.phase = "stopped", !.aborted = TRUE]
            /\ UNCHANGED <<events, nextEvents, cyclesUntilNextEvent,
                           lineCounter, iSTAT, extIntPending>>
       ELSE LET w == processEvents(
                        [events |-> events, nextEvents |-> nextEvents,
                         lineCounter |-> lineCounter, iSTAT |-> iSTAT,
                         aborted |-> FALSE], 1, RUN_CYCLES)
            IN  /\ events' = w.events
                /\ nextEvents' = w.nextEvents
                /\ cyclesUntilNextEvent' = cyclesUntilNextEvent - RUN_CYCLES
                /\ lineCounter' = w.lineCounter
                /\ iSTAT' = w.iSTAT
                /\ extIntPending' =
                      IF w.iSTAT = iSTAT THEN extIntPending
                      ELSE setInterruptPending(checkInterrupt(w.iSTAT, iMASK))
                /\ main' = IF w.aborted
                           THEN [main EXCEPT !.phase = "stopped",
                                             !.aborted = TRUE]
                           ELSE [main EXCEPT
                                   !.quanta = main.quanta + 1,
                                   !.phase =
                                       IF main.quanta + 1 = MaxQuanta
                                       THEN "stopped" ELSE "cpu"]
    /\ UNCHANGED <<cpu, timers>>

(***************************************************************************)
(* sio.cpp: the controller port (JOY)                                      *)
(***************************************************************************)

ACK_TIME == 1088

\* sio::init() registers its callback after the CDROM, the DMAC and the GPU
idSendACK == 4

\* the bytes the program writes to JOY_TX_FIFO: the controller's address,
\* the read command, the padding byte and an unknown command
TxBytes == {1, 66, 0, 67}

\* the values the program writes to JOY_CTRL: time-out, slot 1 selected with
\* the ACK interrupt enabled, slot 2 selected, and a reset with an
\* acknowledge
CtrlWrites == {0, 4099, 12291, 4179}

\* the button bitmaps setInput() is passed
InputBitmaps == {65534, 48861}

\* bit n of x
Bit(x, n) == (x \div (2 ^ n)) % 2 = 1

\* joyctrl.raw & 0x2002
And2002(raw) ==
    (IF Bit(raw, 1) THEN 2 ELSE 0) + (IF Bit(raw, 13) THEN 8192 ELSE 0)

\* the payload of the ACK a write in SendID would schedule if the ID's high
\* byte came first
idByteHighFirst(len) == IF len = 2 THEN 90 ELSE 65

\* the payload of the ACK a write in SendID schedules:
\* (cmdLen == 2) ? 0x41 : 0x5A
idByte(len) == IF len = 2 THEN 65 ELSE 90

\* the payload of the ACK a write in SendButtons schedules:
\* (cmdLen == 2) ? keyState : (keyState >> 8)
buttonByte(len, keys) == IF len = 2 THEN keys ELSE keys \div 256

\* write8(JOYFIFO, data) on s = [state, cmdLen, rxFIFO, joystat, nextEvents,
\* aborted], with keys = keyState and raw = joyctrl.raw
sioWrite8(s, data, keys, raw) ==
    LET t == [s EXCEPT !.joystat.rdy0 = FALSE, !.joystat.rdy1 = FALSE]
        sched(p) == addEvent(<<>>, t.nextEvents, idSendACK, p,
                             ACK_TIME).nextEvents
    IN  CASE s.state = "Idle" ->
               IF data = 1 /\ And2002(raw) = 2
               THEN [t EXCEPT !.nextEvents = sched(255),
                              !.state = "SendID", !.cmdLen = 2]
               ELSE [t EXCEPT !.rxFIFO = Append(@, 255),
                              !.joystat.rdy0 = TRUE, !.joystat.rdy1 = TRUE]
          [] s.state = "SendID" ->
               LET u == [t EXCEPT !.nextEvents = sched(idByte(s.cmdLen)),
                                  !.cmdLen = @ - 1]
               IN  IF u.cmdLen = 0
                   THEN IF data # 0 THEN [u EXCEPT !.aborted = TRUE]
                        ELSE [u EXCEPT !.state = "SendButtons", !.cmdLen = 2]
                   ELSE IF data # 66 THEN [u EXCEPT !.state = "Idle"]
                        ELSE u
          [] s.state = "SendButtons" ->
               IF data # 0 THEN [t EXCEPT !.aborted = TRUE]
               ELSE LET u == [t EXCEPT
                                !.nextEvents = sched(buttonByte(s.cmdLen, keys)),
                                !.cmdLen = @ - 1]
                    IN  IF u.cmdLen = 0 THEN [u EXCEPT !.state = "Idle"]
                        ELSE u

\* the statics of sio.cpp: state = Idle, keyState = ~1, cmdLen = 0, the
\* registers zero-initialised
SioInit ==
    /\ state = "Idle"
    /\ cmdLen = 0
    /\ rxFIFO = <<>>
    /\ keyState = 65534
    /\ joyctrl = [raw |-> 0, airq |-> FALSE]
    /\ joystat = [rdy0 |-> FALSE, rdy1 |-> FALSE, ack |-> FALSE,
                  irq |-> FALSE]
    /\ sioAborted = FALSE
    /\ sioOp = [nth |-> 0, data |-> 0, before |-> "Idle", lenBefore |-> 0,
                slot1 |-> FALSE, keys |-> 0, after |-> "Idle",
                aborted |-> FALSE, acks |-> <<>>, pushed |-> <<>>,
                reset |-> FALSE, drains |-> 0]

\* the times in one behaviour the program leaves the port alone until the
\* ACKs have come; it writes no byte to JOY_TX_FIFO after the last
MaxDrains == 1

\* the program writes a byte to JOY_TX_FIFO
SioWriteTx ==
    /\ UNCHANGED notSioVars
    /\ spc = "cpu"
    /\ ~sioAborted
    /\ Len(rxFIFO) + Len(events) + Len(nextEvents) < MaxSioBytes
    /\ sioOp.drains < MaxDrains
    /\ \E data \in TxBytes :
          LET r == sioWrite8([state |-> state, cmdLen |-> cmdLen,
                              rxFIFO |-> rxFIFO, joystat |-> joystat,
                              nextEvents |-> nextEvents, aborted |-> FALSE],
                             data, keyState, joyctrl.raw)
          IN  /\ state' = r.state
              /\ cmdLen' = r.cmdLen
              /\ rxFIFO' = r.rxFIFO
              /\ joystat' = r.joystat
              /\ nextEvents' = r.nextEvents
              /\ sioAborted' = r.aborted
              /\ sioOp' =
                    [nth |-> IF state = "Idle" THEN 1 ELSE sioOp.nth + 1,
                     data |-> data, before |-> state, lenBefore |-> cmdLen,
                     slot1 |-> And2002(joyctrl.raw) = 2,
                     keys |-> keyState, after |-> r.state,
                     aborted |-> r.aborted,
                     acks |-> SubSeq(r.nextEvents, Len(nextEvents) + 1,
                                     Len(r.nextEvents)),
                     pushed |-> SubSeq(r.rxFIFO, Len(rxFIFO) + 1,
                                       Len(r.rxFIFO)),
                     reset |-> FALSE, drains |-> sioOp.drains]
    /\ UNCHANGED <<events, cyclesUntilNextEvent, spc, it, returned, lastFired,
                   visits>>
    /\ UNCHANGED <<keyState, joyctrl>>

\* the program writes JOY_CTRL: write16(JOYCTRL, data)
SioWriteCtrl ==
    /\ UNCHANGED notSioVars
    /\ UNCHANGED schedVars
    /\ spc = "cpu"
    /\ ~sioAborted
    /\ \E data \in CtrlWrites :
          LET reset == Bit(data, 6)
              clear == reset \/ data = 0
          IN  /\ joyctrl' = [raw |-> data, airq |-> Bit(data, 12)]
              /\ joystat' = [rdy0 |-> reset \/ joystat.rdy0,
                             rdy1 |-> reset \/ joystat.rdy1,
                             ack  |-> joystat.ack,
                             irq  |-> joystat.irq /\ ~Bit(data, 4) /\ ~reset]
              /\ state' = IF clear THEN "Idle" ELSE state
              /\ rxFIFO' = IF clear THEN <<>> ELSE rxFIFO
              \* sioOp.reset: the port has been reset since the last write
              \* to JOY_TX_FIFO
              /\ sioOp' = [sioOp EXCEPT !.reset = @ \/ clear]
    /\ UNCHANGED <<cmdLen, keyState, sioAborted>>

\* the program reads JOY_RX_FIFO: read8(JOYFIFO) pops the front of the queue
\* unless it is empty
SioRead8 ==
    /\ UNCHANGED notSioVars
    /\ UNCHANGED schedVars
    /\ spc = "cpu"
    /\ ~sioAborted
    /\ rxFIFO # <<>>
    /\ rxFIFO' = Tail(rxFIFO)
    /\ UNCHANGED <<state, cmdLen, keyState, joyctrl, joystat, sioAborted,
                   sioOp>>

\* the host reports the buttons: setInput(input)
SioSetInput ==
    /\ UNCHANGED notSioVars
    /\ UNCHANGED schedVars
    /\ ~sioAborted
    /\ \E input \in InputBitmaps :
          /\ input # keyState
          /\ keyState' = input
    /\ UNCHANGED <<state, cmdLen, rxFIFO, joyctrl, joystat, sioAborted,
                   sioOp>>

\* enum class Interrupt: SIORecieve
SIORecieve == 7

\* sendACKEvent(data) on w = [rxFIFO, joystat, iSTAT]; rxFIFO is a queue of
\* u8
sendACKEvent(w, data) ==
    [w EXCEPT !.rxFIFO = Append(@, data % 256),
              !.joystat.rdy0 = TRUE, !.joystat.rdy1 = TRUE,
              !.joystat.ack = TRUE,
              !.joystat.irq = @ \/ joyctrl.airq,
              !.iSTAT = IF joyctrl.airq THEN sendInterrupt(@, SIORecieve)
                        ELSE @]

\* the drain of the live queue q of ACK events after elapsed cycles: every
\* event is decremented; one whose counter has reached zero is removed and
\* sendACKEvent runs with its param; the others stay, in order
RECURSIVE ackDrain(_, _, _)
ackDrain(q, elapsed, w) ==
    IF q = <<>> THEN w
    ELSE LET e == Head(q)
             c == e.cyc - elapsed
         IN  IF c <= 0
             THEN ackDrain(Tail(q), elapsed,
                           sendACKEvent([w EXCEPT !.fired = Append(@, e)],
                                        e.param))
             ELSE ackDrain(Tail(q), elapsed,
                           [w EXCEPT !.events = Append(@, [e EXCEPT !.cyc = c])])

\* the quanta the program leaves the port alone for: the one that merges the
\* staged ACKs and the ACK_TIME cycles after it
AckQuanta == 1 + (ACK_TIME \div RUN_CYCLES)

\* processEvents(RUN_CYCLES) at the end of each of these quanta: the first
\* one delivers the live ACKs that are due and merges the staging queue into
\* the live queue, the last one finds the merged ACKs due
SioDrain ==
    /\ UNCHANGED <<dmaVars, cpuVars, cdVars, execVars, runVars, timerVars,
                   gpuVars, busVars, xferVars, gteVars, spuVars, iMASK,
                   intcAborted>>
    /\ spc = "cpu"
    /\ ~sioAborted
    /\ events # <<>> \/ nextEvents # <<>>
    /\ sioOp.drains < MaxDrains
    /\ sioOp' = [sioOp EXCEPT !.drains = @ + 1]
    /\ LET first == ackDrain(events, RUN_CYCLES,
                             [events |-> <<>>, rxFIFO |-> rxFIFO,
                              joystat |-> joystat, iSTAT |-> iSTAT,
                              fired |-> <<>>])
           w == ackDrain(first.events \o nextEvents,
                         (AckQuanta - 1) * RUN_CYCLES,
                         [first EXCEPT !.events = <<>>])
       IN  /\ rxFIFO' = w.rxFIFO
           /\ joystat' = w.joystat
           /\ events' = w.events
           /\ nextEvents' = <<>>
           /\ cyclesUntilNextEvent' = reschedule(w.events)
           /\ lastFired' = w.fired
           /\ iSTAT' = w.iSTAT
           /\ extIntPending' = checkInterrupt(w.iSTAT, iMASK)
           /\ intcOp' = IF w.iSTAT = iSTAT THEN intcOp
                        ELSE [op |-> "send", again |-> FALSE,
                              lineBefore |-> extIntPending]
    /\ returned' = TRUE
    /\ UNCHANGED <<spc, it, visits, state, cmdLen, keyState, joyctrl,
                   sioAborted>>

(***************************************************************************)
(* timer.cpp: the registers of the three timers                            *)
(***************************************************************************)

\* enum class Interrupt: Timer0; timer tmID sends Timer0 + tmID
Timer0 == 4

\* the timer the program writes to: timer 2, the one with the prescaler
TimerChns == {2}

\* the values the program writes to T_MODE: the two clock sources of timer
\* 2, compare with zero return, overflow, and compare with zero return in
\* repeat and level mode
ModeWrites == {256, 512, 24, 32, 216}

\* the values the program writes to T_COMP
CompWrites == {8, 2}

\* the values the program writes to T_COUNT
CountWrites == {65520}

\* the cycles step() is passed
StepCycles == {16, RUN_CYCLES}

\* write(MODE, data) for timer chn: the fields are decoded, intf is set, the
\* gate pauses timer 1 under gats 2 and 3 and timer 2 under gats 0 and 3,
\* timer 2 takes its prescaler from clks, and the counter is cleared; timer 0
\* has neither a gate nor a clock source: exit(0)
writeMode(t, chn, data) ==
    LET m == [gate |-> Bit(data, 0), gats |-> (data \div 2) % 4,
              zret |-> Bit(data, 3), cmpe |-> Bit(data, 4),
              ovfe |-> Bit(data, 5), rept |-> Bit(data, 6),
              levl |-> Bit(data, 7), clks |-> (data \div 256) % 4,
              intf |-> TRUE, equf |-> t.mode.equf, ovff |-> t.mode.ovff]
        paused == /\ m.gate
                  /\ \/ chn = 1 /\ m.gats \in {2, 3}
                     \/ chn = 2 /\ m.gats \in {0, 3}
    IN  [t |-> [t EXCEPT !.mode = m, !.isPaused = paused,
                         !.prescaler = IF m.clks # 0 /\ chn = 2
                                       THEN 1 + 7 * (IF m.clks > 1 THEN 1
                                                     ELSE 0)
                                       ELSE @,
                         !.subcount = 0, !.count = 0],
         exited |-> (m.gate /\ chn = 0) \/ (m.clks # 0 /\ chn = 0)]

\* write(COMP, data): the compare value; intf is set unless in level mode
writeComp(t, data) ==
    [t EXCEPT !.comp = data, !.mode.intf = IF ~t.mode.levl THEN TRUE ELSE @]

\* read(MODE) as it would be if it cleared nothing
readModeKeeps(t) == t

\* read(MODE): the timer after the read, equf and ovff cleared
readMode(t) == [t EXCEPT !.mode.equf = FALSE, !.mode.ovff = FALSE]

\* nothing has been done to the timers yet
TimerInit ==
    /\ timerOp = [op |-> "none", tm |-> 0, before |-> ModeZero,
                  sent |-> FALSE, calls |-> 0]
    /\ timerProg = [tm |-> 0, mode |-> 0, comp |-> -1, cycles |-> 0,
                    raised |-> FALSE, exact |-> FALSE, total |-> 0]
    /\ timerExited = FALSE

\* timer::init(): memset, and every prescaler is 1
TimerStart ==
    /\ UNCHANGED notTimerVars
    /\ timerOp.op = "none"
    /\ timers' = [i \in 0..2 |-> [TimerZero EXCEPT !.prescaler = 1]]
    /\ timerOp' = [timerOp EXCEPT !.op = "init"]
    /\ UNCHANGED <<timerProg, timerExited>>

\* the program writes T_MODE of a timer
TimerWriteMode ==
    /\ UNCHANGED notTimerVars
    /\ timerOp.op # "none"
    /\ ~timerExited
    /\ \E chn \in TimerChns, data \in ModeWrites :
          LET r == writeMode(timers[chn], chn, data) IN
              /\ timers' = [timers EXCEPT ![chn] = r.t]
              /\ timerExited' = r.exited
              /\ timerOp' = [op |-> "writeMode", tm |-> chn,
                             before |-> timers[chn].mode, sent |-> FALSE,
                             calls |-> 0]
              /\ timerProg' = [tm |-> chn, mode |-> data, comp |-> -1,
                               cycles |-> 0, raised |-> FALSE,
                               exact |-> TRUE, total |-> timerProg.total]

\* the program writes T_COMP of a timer
TimerWriteComp ==
    /\ UNCHANGED notTimerVars
    /\ timerOp.op # "none"
    /\ ~timerExited
    /\ \E chn \in TimerChns, data \in CompWrites :
          /\ timers' = [timers EXCEPT ![chn] = writeComp(@, data)]
          /\ timerOp' = [op |-> "writeComp", tm |-> chn,
                         before |-> timers[chn].mode, sent |-> FALSE,
                         calls |-> 0]
          /\ timerProg' =
                IF chn # timerProg.tm THEN timerProg
                ELSE [timerProg EXCEPT
                        !.comp = data,
                        !.exact = @ /\ timerProg.comp = -1
                                    /\ timerProg.cycles = 0]
    /\ UNCHANGED timerExited

\* the program writes T_COUNT of a timer: timer.count = data
TimerWriteCount ==
    /\ UNCHANGED notTimerVars
    /\ timerOp.op # "none"
    /\ ~timerExited
    /\ \E chn \in TimerChns, data \in CountWrites :
          /\ timers' = [timers EXCEPT ![chn].count = data]
          /\ timerOp' = [op |-> "writeCount", tm |-> chn,
                         before |-> timers[chn].mode, sent |-> FALSE,
                         calls |-> 0]
          /\ timerProg' = IF chn # timerProg.tm THEN timerProg
                          ELSE [timerProg EXCEPT !.exact = FALSE]
    /\ UNCHANGED timerExited

\* the program reads T_MODE of a timer
TimerReadMode ==
    /\ UNCHANGED notTimerVars
    /\ timerOp.op # "none"
    /\ ~timerExited
    /\ \E chn \in TimerChns :
          /\ timers' = [timers EXCEPT ![chn] = readMode(@)]
          /\ timerOp' = [op |-> "readMode", tm |-> chn,
                         before |-> timers[chn].mode, sent |-> FALSE,
                         calls |-> 0]
    /\ UNCHANGED <<timerProg, timerExited>>

\* timer::step(c): every timer is stepped, and a timer whose sendInterrupt
\* found intf set sends its interrupt; timerOp is about the timer last
\* programmed
TimerStep ==
    /\ UNCHANGED <<schedVars, dmaVars, cpuVars, cdVars, execVars, sioVars,
                   main, lineCounter, gpuVars, busVars, xferVars, gteVars, spuVars>>
    /\ timerOp.op # "none"
    /\ ~timerExited
    /\ \E c \in StepCycles :
          LET r == [i \in 0..2 |-> timerStep(timers[i], c, i)]
              st == iSTAT \cup {Timer0 + i : i \in {j \in 0..2 : r[j].sent}}
              tm == timerProg.tm
          IN  /\ timerProg.total + c <= MaxTimerCycles
              /\ timers' = [i \in 0..2 |-> r[i].t]
              /\ iSTAT' = st
              /\ extIntPending' = checkInterrupt(st, iMASK)
              /\ intcOp' = IF st = iSTAT THEN intcOp
                           ELSE [op |-> "send", again |-> FALSE,
                                 lineBefore |-> extIntPending]
              /\ timerOp' = [op |-> "step", tm |-> tm,
                             before |-> timers[tm].mode,
                             sent |-> r[tm].sent, calls |-> r[tm].calls]
              /\ timerProg' = [timerProg EXCEPT
                                 !.cycles = @ + c,
                                 !.total = @ + c,
                                 !.raised = @ \/ r[tm].sent]
    /\ UNCHANGED <<iMASK, intcAborted, timerExited>>

(***************************************************************************)
(* gpu.cpp: the GP0 command port, the rasterizer and the VRAM copies       *)
(***************************************************************************)

VRAM_WIDTH == 1024

VRAM_HEIGHT == 512

\* A u32 is kept as its two halves, [hi, lo]
W(hi, lo) == [hi |-> hi, lo |-> lo]

\* data >> 24
Opcode(data) == data.hi \div 256

\* data & 0xFFFFFF
Low24(data) == (data.hi % 256) * 65536 + data.lo

\* (x >> s) & ((1 << n) - 1)
Field(x, s, n) == (x \div (2 ^ s)) % (2 ^ n)

\* a & b for naturals
RECURSIVE BitAnd(_, _)
BitAnd(a, b) ==
    IF a = 0 \/ b = 0 THEN 0
    ELSE (a % 2) * (b % 2) + 2 * BitAnd(a \div 2, b \div 2)

\* (i32)((n & 0x7FF) << 21) >> 21: an 11-bit field, sign-extended
SignExt11(n) == IF n >= 1024 THEN n - 2048 ELSE n

\* a | b for naturals
BitOr(a, b) == a + b - BitAnd(a, b)

Min2(a, b) == IF a < b THEN a ELSE b

Max2(a, b) == IF a > b THEN a ELSE b

\* an index vram[] has an element for, after vram.resize in init()
InVram(i) == i >= 0 /\ i < VRAM_WIDTH * VRAM_HEIGHT

\* vram[i] of a VRAM kept as the function of its non-zero cells
Cell(v, i) == IF i \in DOMAIN v THEN v[i] ELSE 0

\* vram[i] = val, val a u16
vramSet(v, i, val) ==
    IF val = 0 THEN [j \in DOMAIN v \ {i} |-> v[j]]
    ELSE [j \in DOMAIN v \cup {i} |-> IF j = i THEN val ELSE v[j]]

\* A command in execution: x.g is the GPU's registers, x.v the VRAM,
\* x.reads and x.writes the indices of vram[] it has read and written, x.pix
\* the pixels drawPixel was called for, x.ub whether it has done something
\* the language leaves undefined (an index outside vram[], a division by
\* zero), and x.junk the value such a read or division yields.

\* a read of vram[i]
vramRead(x, i) == IF InVram(i) THEN Cell(x.v, i) ELSE x.junk

readAt(x, i) == [x EXCEPT !.reads = @ \cup {i}, !.ub = @ \/ ~InVram(i)]

\* vram[i] = val
writeAt(x, i, val) ==
    [x EXCEPT !.v = IF InVram(i) THEN vramSet(@, i, val % 65536) ELSE @,
              !.writes = @ \cup {i},
              !.ub = @ \/ ~InVram(i)]

\* toBGR555(c)
toBGR555(c) ==
    Field(c, 19, 5) * 1024 + Field(c, 11, 5) * 32 + Field(c, 3, 5)

\* drawPixel<conv>(x, y, c)
drawPixel(x, px, py, c, conv) ==
    LET w == writeAt(x, px + 1024 * py, IF conv THEN toBGR555(c) ELSE c)
    IN  [w EXCEPT !.pix = @ \cup {<<px, py>>}]

\* Vertex(v, c, tex)
Vertex(v, c, tex) ==
    [x |-> SignExt11(v.lo % 2048), y |-> SignExt11(v.hi % 2048),
     c |-> Low24(c), tex |-> tex]

\* edgeFunction(a, b, c)
edgeFunction(a, b, c) ==
    (b.x - a.x) * (c.y - a.y) - (b.y - a.y) * (c.x - a.x)

\* static const u32 texDepth[4]
texDepth(i) == IF i = 0 THEN 4 ELSE IF i = 1 THEN 8 ELSE IF i = 2 THEN 16 ELSE 0

\* fetchTex(texX, texY, texPage, clut): [x, color]
fetchTex(x, texX0, texY0, texPage, clut) ==
    LET tw == x.g.texWindow
        texX == (texX0 - BitAnd(texX0, tw.maskX)) + BitAnd(tw.ofsX, tw.maskX)
        texY == (texY0 - BitAnd(texY0, tw.maskY)) + BitAnd(tw.ofsY, tw.maskY)
        texPageX == Field(texPage, 0, 4)
        texPageY == 256 * Field(texPage, 4, 1)
        depth == texDepth(Field(texPage, 7, 2))
        tx == IF depth = 4 THEN 64 * texPageX + (texX \div 4)
              ELSE IF depth = 8 THEN 64 * texPageX + (texX \div 2)
              ELSE IF depth = 16 THEN 64 * texPageX + texX
              ELSE 0
        ty == texPageY + texY
        texel == vramRead(x, tx + 1024 * ty)
        x1 == readAt(x, tx + 1024 * ty)
        clutX == 16 * Field(clut, 0, 6)
        clutY == Field(clut, 6, 9)
        clutOfs == IF depth = 4 THEN Field(texel, 4 * (texX % 4), 4)
                   ELSE Field(texel, 8 * (texX % 2), 8)
        ci == (clutX + clutOfs) + 1024 * clutY
    IN  IF depth = 16 THEN [x |-> x1, color |-> texel]
        ELSE [x |-> readAt(x1, ci), color |-> vramRead(x1, ci)]

\* the pixels of a bounding box in the order the two for loops visit them
PixelSeq(xMin, xMax, yMin, yMax) ==
    LET w == xMax - xMin
        h == yMax - yMin
        n == IF w > 0 /\ h > 0 THEN w * h ELSE 0
    IN  [k \in 1..n |-> [x |-> xMin + ((k - 1) % w),
                         y |-> yMin + ((k - 1) \div w)]]

\* triSetup as it would be if it did not intersect with the drawing area
triSetupUnclipped(g, v0, v1, v2) ==
    LET swap == edgeFunction(v0, v1, v2) < 0
        ofs(v) == [v EXCEPT !.x = @ + g.xyoffset.xofs,
                            !.y = @ + g.xyoffset.yofs]
        a == ofs(v0)
        b == ofs(IF swap THEN v2 ELSE v1)
        c == ofs(IF swap THEN v1 ELSE v2)
    IN  [a |-> a, b |-> b, c |-> c, area |-> edgeFunction(a, b, c),
         xMin |-> Max2(Min2(a.x, Min2(b.x, c.x)), 0),
         yMin |-> Max2(Min2(a.y, Min2(b.y, c.y)), 0),
         xMax |-> Max2(a.x, Max2(b.x, c.x)),
         yMax |-> Max2(a.y, Max2(b.y, c.y))]

\* The head of drawFlatTri, drawShadedTri and drawTexturedTri: the winding
\* order, the drawing offset, the signed area and the bounding box
\* intersected with the drawing area
triSetup(g, v0, v1, v2) ==
    LET swap == edgeFunction(v0, v1, v2) < 0
        ofs(v) == [v EXCEPT !.x = @ + g.xyoffset.xofs,
                            !.y = @ + g.xyoffset.yofs]
        a == ofs(v0)
        b == ofs(IF swap THEN v2 ELSE v1)
        c == ofs(IF swap THEN v1 ELSE v2)
    IN  [a |-> a, b |-> b, c |-> c, area |-> edgeFunction(a, b, c),
         xMin |-> Max2(Min2(a.x, Min2(b.x, c.x)), g.xyarea.x0),
         yMin |-> Max2(Min2(a.y, Min2(b.y, c.y)), g.xyarea.y0),
         xMax |-> Min2(Max2(a.x, Max2(b.x, c.x)), g.xyarea.x1),
         yMax |-> Min2(Max2(a.y, Max2(b.y, c.y)), g.xyarea.y1)]

\* the three weights of a pixel
weights(s, p) ==
    [w0 |-> edgeFunction(s.b, s.c, p), w1 |-> edgeFunction(s.c, s.a, p),
     w2 |-> edgeFunction(s.a, s.b, p)]

\* Is point inside of triangle ?
inside(w) == w.w0 >= 0 /\ w.w1 >= 0 /\ w.w2 >= 0

\* (w0 * ca + w1 * cb + w2 * cc) / area for the weights of a pixel inside
\* the triangle, none of them negative; a division by zero yields x.junk
interpolate(x, s, w, ca, cb, cc) ==
    IF s.area = 0 THEN x.junk
    ELSE (w.w0 * ca + w.w1 * cb + w.w2 * cc) \div s.area

\* the division by area
divides(x, s) ==
    [x EXCEPT !.ub = @ \/ s.area = 0, !.divZero = @ \/ s.area = 0]

\* the loops of drawFlatTri from pixel k on
RECURSIVE flatTriLoop(_, _, _, _, _)
flatTriLoop(x, s, ps, k, color) ==
    IF k > Len(ps) THEN x
    ELSE flatTriLoop(IF inside(weights(s, ps[k]))
                     THEN drawPixel(x, ps[k].x, ps[k].y, color, FALSE)
                     ELSE x,
                     s, ps, k + 1, color)

\* drawFlatTri(v0, v1, v2, color)
drawFlatTri(x, v0, v1, v2, color) ==
    LET s == triSetup(x.g, v0, v1, v2)
    IN  flatTriLoop(x, s, PixelSeq(s.xMin, s.xMax, s.yMin, s.yMax), 1,
                    toBGR555(color))

\* the loops of drawShadedTri from pixel k on
RECURSIVE shadedTriLoop(_, _, _, _)
shadedTriLoop(x, s, ps, k) ==
    IF k > Len(ps) THEN x
    ELSE LET w == weights(s, ps[k])
             cr == interpolate(x, s, w, Field(s.a.c, 0, 8), Field(s.b.c, 0, 8),
                               Field(s.c.c, 0, 8))
             cg == interpolate(x, s, w, Field(s.a.c, 8, 8), Field(s.b.c, 8, 8),
                               Field(s.c.c, 8, 8))
             cb == interpolate(x, s, w, Field(s.a.c, 16, 8),
                               Field(s.b.c, 16, 8), Field(s.c.c, 16, 8))
             color == BitOr(BitOr(cb * 65536, cg * 256), cr)
         IN  shadedTriLoop(IF inside(w)
                           THEN drawPixel(divides(x, s), ps[k].x, ps[k].y,
                                          color, TRUE)
                           ELSE x,
                           s, ps, k + 1)

\* drawShadedTri(v0, v1, v2)
drawShadedTri(x, v0, v1, v2) ==
    LET s == triSetup(x.g, v0, v1, v2)
    IN  shadedTriLoop(x, s, PixelSeq(s.xMin, s.xMax, s.yMin, s.yMax), 1)

\* the loops of drawTexturedTri from pixel k on
RECURSIVE texturedTriLoop(_, _, _, _, _, _)
texturedTriLoop(x, s, ps, k, clut, texPage) ==
    IF k > Len(ps) THEN x
    ELSE LET w == weights(s, ps[k])
             texX == interpolate(x, s, w, s.a.tex.lo % 256,
                                 s.b.tex.lo % 256, s.c.tex.lo % 256)
             texY == interpolate(x, s, w, s.a.tex.lo \div 256,
                                 s.b.tex.lo \div 256, s.c.tex.lo \div 256)
             f == fetchTex(divides(x, s), texX, texY, texPage, clut)
         IN  texturedTriLoop(IF ~inside(w) THEN x
                             ELSE IF f.color = 0 THEN f.x
                             ELSE drawPixel(f.x, ps[k].x, ps[k].y, f.color,
                                            FALSE),
                             s, ps, k + 1, clut, texPage)

\* drawTexturedTri(v0, v1, v2, clut, texPage)
drawTexturedTri(x, v0, v1, v2, clut, texPage) ==
    LET s == triSetup(x.g, v0, v1, v2)
    IN  texturedTriLoop(x, s, PixelSeq(s.xMin, s.xMax, s.yMin, s.yMax), 1,
                        clut, texPage)

\* The head of drawFlatRect and drawTexturedRect: the drawing offset and the
\* bounding box intersected with the drawing area
rectSetup(g, v, w, h) ==
    LET ax == v.x + g.xyoffset.xofs
        ay == v.y + g.xyoffset.yofs
        xMin == Max2(ax, g.xyarea.x0)
        yMin == Max2(ay, g.xyarea.y0)
    IN  [xMin |-> xMin, yMin |-> yMin,
         xMax |-> Min2(xMin + w, g.xyarea.x1),
         yMax |-> Min2(yMin + h, g.xyarea.y1)]

\* the loops of drawFlatRect from pixel k on
RECURSIVE flatRectLoop(_, _, _, _)
flatRectLoop(x, ps, k, color) ==
    IF k > Len(ps) THEN x
    ELSE flatRectLoop(drawPixel(x, ps[k].x, ps[k].y, color, FALSE), ps,
                      k + 1, color)

\* drawFlatRect(v, w, h, color)
drawFlatRect(x, v, w, h, color) ==
    LET s == rectSetup(x.g, v, w, h)
    IN  flatRectLoop(x, PixelSeq(s.xMin, s.xMax, s.yMin, s.yMax), 1, color)

\* the loops of drawTexturedRect from pixel k on: xc and yc are the pixel's
\* column and row in the box
RECURSIVE texturedRectLoop(_, _, _, _, _, _)
texturedRectLoop(x, s, ps, k, tex, clut) ==
    IF k > Len(ps) THEN x
    ELSE LET f == fetchTex(x, (tex.lo % 256) + (ps[k].x - s.xMin),
                           (tex.lo \div 256) + (ps[k].y - s.yMin),
                           x.g.drawMode, clut)
         IN  texturedRectLoop(IF f.color = 0 THEN f.x
                              ELSE drawPixel(f.x, ps[k].x, ps[k].y, f.color,
                                             FALSE),
                              s, ps, k + 1, tex, clut)

\* drawTexturedRect(v, w, h, clut)
drawTexturedRect(x, v, w, h, clut) ==
    LET s == rectSetup(x.g, v, w, h)
    IN  texturedRectLoop(x, s, PixelSeq(s.xMin, s.xMax, s.yMin, s.yMax), 1,
                         v.tex, clut)

\* cmdParam.front() for the n-th word of the queue
param(x, n) == x.g.cmdParam[n]

\* the command's words popped, state = GPUState::ReceiveCommand
done(x, n) ==
    [x EXCEPT !.g.cmdParam = SubSeq(@, n + 1, Len(@)),
              !.g.state = "ReceiveCommand"]

\* the loops of fillRect from pixel k on
RECURSIVE fillRectLoop(_, _, _, _)
fillRectLoop(x, ps, k, c) ==
    IF k > Len(ps) THEN x
    ELSE fillRectLoop(drawPixel(x, ps[k].x, ps[k].y, c, FALSE), ps, k + 1, c)

\* GP0(0x02) Fill Rectangle
fillRect(x) ==
    LET c == toBGR555(Low24(param(x, 1)))
        coords == param(x, 2)
        dims == param(x, 3)
        x0 == 16 * coords.lo
        y0 == 16 * coords.hi
        width == 16 * dims.lo
        height == 16 * dims.hi
        xMin == Max2(x0, x.g.xyarea.x0)
        yMin == Max2(y0, x.g.xyarea.y0)
        xMax == Min2(width + x0, x.g.xyarea.x1)
        yMax == Min2(height + y0, x.g.xyarea.y1)
    IN  done(fillRectLoop(x, PixelSeq(xMin, xMax, yMin, yMax), 1, c), 3)

\* GP0(0x20) Draw Flat Tri (opaque)
drawTri20(x) ==
    done(drawFlatTri(x, Vertex(param(x, 2), W(0, 0), W(0, 0)),
                     Vertex(param(x, 3), W(0, 0), W(0, 0)),
                     Vertex(param(x, 4), W(0, 0), W(0, 0)),
                     Low24(param(x, 1))), 4)

\* GP0(0x30) Draw Shaded Triangle (opaque)
drawTri30(x) ==
    done(drawShadedTri(x, Vertex(param(x, 2), param(x, 1), W(0, 0)),
                       Vertex(param(x, 4), param(x, 3), W(0, 0)),
                       Vertex(param(x, 6), param(x, 5), W(0, 0))), 6)

\* GP0(0x28) Draw Flat Quadrilateral (opaque)
drawQuad28(x) ==
    LET v(n) == Vertex(param(x, n + 2), W(0, 0), W(0, 0))
        color == Low24(param(x, 1))
    IN  done(drawFlatTri(drawFlatTri(x, v(0), v(1), v(2), color),
                         v(1), v(2), v(3), color), 5)

\* the texture page drawQuad2C and drawQuad3E take from the vertices
quadTexPage(v0, v1, v2) ==
    IF edgeFunction(v0, v1, v2) < 0 THEN v2.tex.hi ELSE v1.tex.hi

\* GP0(0x2C) Draw Textured Quadrilateral (semi-transparent, blended)
drawQuad2C(x) ==
    LET c == param(x, 1)
        v(i) == Vertex(param(x, 2 + 2 * i), c, param(x, 3 + 2 * i))
        clut == v(0).tex.hi
        texPage == quadTexPage(v(0), v(1), v(2))
    IN  done(drawTexturedTri(drawTexturedTri(x, v(0), v(1), v(2), clut,
                                             texPage),
                             v(1), v(2), v(3), clut, texPage), 9)

\* GP0(0x38) Draw Shaded Quadrilateral (opaque)
drawQuad38(x) ==
    LET v(i) == Vertex(param(x, 2 + 2 * i), param(x, 1 + 2 * i), W(0, 0))
    IN  done(drawShadedTri(drawShadedTri(x, v(0), v(1), v(2)),
                           v(1), v(2), v(3)), 8)

\* GP0(0x3E) Draw Shaded Textured Quadrilateral
drawQuad3E(x) ==
    LET v(i) == Vertex(param(x, 2 + 3 * i), param(x, 1 + 3 * i),
                       param(x, 3 + 3 * i))
        clut == v(0).tex.hi
        texPage == quadTexPage(v(0), v(1), v(2))
    IN  done(drawTexturedTri(drawTexturedTri(x, v(0), v(1), v(2), clut,
                                             texPage),
                             v(1), v(2), v(3), clut, texPage), 12)

\* GP0(0x60) Draw Flat Rectangle (variable)
drawRect60(x) ==
    LET c == param(x, 1)
        dims == param(x, 3)
    IN  done(drawFlatRect(x, Vertex(param(x, 2), c, W(0, 0)), dims.lo,
                          dims.hi, Low24(c)), 3)

\* GP0(0x65) Draw Textured Rectangle (variable, opaque)
drawRect65(x) ==
    LET v0 == Vertex(param(x, 2), param(x, 1), param(x, 3))
        dims == param(x, 4)
    IN  done(drawTexturedRect(x, v0, dims.lo, dims.hi, v0.tex.hi), 4)

\* GP0(0x74) Draw Textured Rectangle (8x8, opaque)
drawRect74(x) ==
    LET v0 == Vertex(param(x, 2), param(x, 1), param(x, 3))
    IN  done(drawTexturedRect(x, v0, 8, 8, v0.tex.hi), 3)

\* GP0(0x78) Draw Flat Rectangle (8x8)
drawRect78(x) ==
    LET c == param(x, 1)
    IN  done(drawFlatRect(x, Vertex(param(x, 2), c, W(0, 0)), 8, 8,
                          Low24(c)), 2)

\* GP0(0x7C) Draw Textured Rectangle (16x16, opaque)
drawRect7C(x) ==
    LET v0 == Vertex(param(x, 2), param(x, 1), param(x, 3))
    IN  done(drawTexturedRect(x, v0, 16, 16, v0.tex.hi), 3)

\* the CopyInfo copyCPUToVRAM and copyVRAMToCPU set up
copyInfo(coords, dims) ==
    [cx |-> coords.lo, cy |-> coords.hi,
     xMin |-> coords.lo, yMin |-> coords.hi,
     xMax |-> dims.lo + coords.lo,
     yMax |-> dims.hi]

\* (((dims >> 16) * (dims & 0xFFFF) + 1) & ~1) / 2
copyWords(dims) == (dims.hi * dims.lo + 1) \div 2

\* GP0(0xA0) Copy Rectangle (CPU->VRAM)
copyCPUToVRAM(x) ==
    [x EXCEPT !.g.dstCopyInfo = copyInfo(param(x, 1), param(x, 2)),
              !.g.argCount = copyWords(param(x, 2)),
              !.g.cmdParam = SubSeq(@, 3, Len(@)),
              !.g.state = "CopyRectangle"]

\* GP0(0xC0) Copy Rectangle (VRAM->CPU)
copyVRAMToCPU(x) ==
    [x EXCEPT !.g.srcCopyInfo = copyInfo(param(x, 1), param(x, 2)),
              !.g.argCount = copyWords(param(x, 2)),
              !.g.cmdParam = SubSeq(@, 3, Len(@)),
              !.g.state = "CopyRectangle"]

\* One cell of a copy: cx++, and at the end of the row cy++ and cx = xMin
advance(c) ==
    IF c.cx + 1 >= c.xMax THEN [c EXCEPT !.cy = @ + 1, !.cx = c.xMin]
    ELSE [c EXCEPT !.cx = @ + 1]

\* the while (true) of copyVRAMToVRAM: its body is the same statements twice
RECURSIVE copyLoop(_)
copyLoop(x) ==
    LET s == x.g.srcCopyInfo
        d == x.g.dstCopyInfo
        si == s.cx + 1024 * s.cy
        y == writeAt(readAt(x, si), d.cx + 1024 * d.cy, vramRead(x, si))
    IN  IF s.cx + 1 >= s.xMax
        THEN IF s.cy + 1 >= s.yMax
             THEN [y EXCEPT !.g.srcCopyInfo.cx = @ + 1,
                            !.g.srcCopyInfo.cy = @ + 1,
                            !.g.dstCopyInfo.cx = @ + 1,
                            !.g.dstCopyInfo.cy = @ + 1]
             ELSE copyLoop([y EXCEPT !.g.srcCopyInfo.cx = s.xMin,
                                     !.g.srcCopyInfo.cy = @ + 1,
                                     !.g.dstCopyInfo.cx = d.xMin,
                                     !.g.dstCopyInfo.cy = @ + 1])
        ELSE copyLoop([y EXCEPT !.g.srcCopyInfo.cx = @ + 1,
                                !.g.dstCopyInfo.cx = @ + 1])

\* GP0(0x80) Copy Rectangle (VRAM->VRAM)
copyVRAMToVRAM(x) ==
    LET srcCoord == param(x, 1)
        dstCoord == param(x, 2)
        dims == param(x, 3)
        d == [x.g.dstCopyInfo EXCEPT !.xMin = dstCoord.lo,
                                     !.yMin = dstCoord.hi,
                                     !.cx = dstCoord.lo,
                                     !.cy = dstCoord.hi]
    IN  done(copyLoop([x EXCEPT !.g.dstCopyInfo = d,
                                !.g.srcCopyInfo = copyInfo(srcCoord, dims)]),
             3)

\* setArgCount(c)
setArgCount(x, c) == [x EXCEPT !.g.argCount = c, !.g.state = "ReceiveArguments"]

\* the cases of ReceiveCommand that push the command word, "Also first
\* argument", with the count they pass to setArgCount
PushingArgs ==
    [c \in {2, 96, 98, 116, 124, 125} |-> 2] @@
    [c \in {32, 34, 100, 101, 102} |-> 3] @@
    [c \in {40, 42, 43} |-> 4] @@
    [c \in {44, 45, 46, 47} |-> 8] @@
    [c \in {48, 50} |-> 5] @@
    [c \in {56, 58} |-> 7] @@
    [c \in {60, 62} |-> 11] @@
    [c \in {120} |-> 1]

\* the cases of ReceiveCommand that only call setArgCount
PlainArgs ==
    [c \in {64, 66, 160, 192} |-> 2] @@ [c \in {128} |-> 3]

\* the cases of ReceiveCommand that print, and do nothing else
NoOps == {0, 1, 230, 255}

\* writeGP0, case GPUState::ReceiveCommand
receiveCommand(x, data) ==
    LET cmd == Opcode(data)
        low == Low24(data)
        y == [x EXCEPT !.g.cmd = cmd]
    IN  IF cmd \in NoOps THEN [y EXCEPT !.ran = 1]
        ELSE IF cmd \in DOMAIN PushingArgs
        THEN setArgCount([y EXCEPT !.g.cmdParam = Append(@, data)],
                         PushingArgs[cmd])
        ELSE IF cmd \in DOMAIN PlainArgs THEN setArgCount(y, PlainArgs[cmd])
        ELSE IF cmd = 31
        THEN [y EXCEPT !.g.gpustat = BitOr(@, 2 ^ 24), !.irq = TRUE,
                       !.ran = 1]
        ELSE IF cmd = 225
        THEN [y EXCEPT !.g.drawMode = low, !.ran = 1]
        ELSE IF cmd = 226
        THEN [y EXCEPT !.g.texWindow =
                            [maskX |-> 8 * Field(low, 0, 5),
                             maskY |-> 8 * Field(low, 5, 5),
                             ofsX |-> 8 * Field(low, 10, 5),
                             ofsY |-> 8 * Field(low, 15, 5)],
                       !.ran = 1]
        ELSE IF cmd = 227
        THEN [y EXCEPT !.g.xyarea.x0 = Field(low, 0, 10),
                       !.g.xyarea.y0 = Field(low, 10, 9), !.ran = 1]
        ELSE IF cmd = 228
        THEN [y EXCEPT !.g.xyarea.x1 = Field(low, 0, 10),
                       !.g.xyarea.y1 = Field(low, 10, 9), !.ran = 1]
        ELSE IF cmd = 229
        THEN [y EXCEPT !.g.xyoffset =
                            [xofs |-> SignExt11(Field(low, 0, 11)),
                             yofs |-> SignExt11(Field(low, 11, 11))],
                       !.ran = 1]
        ELSE [y EXCEPT !.exited = TRUE]

\* the switch (cmd) of ReceiveArguments, taken when argCount reaches zero
execute(x) ==
    LET cmd == x.g.cmd
        y == [x EXCEPT !.ran = 1]
    IN  IF cmd = 2 THEN fillRect(y)
        ELSE IF cmd \in {32, 34} THEN drawTri20(y)
        ELSE IF cmd \in {40, 42, 43} THEN drawQuad28(y)
        ELSE IF cmd \in {44, 45, 46, 47} THEN drawQuad2C(y)
        ELSE IF cmd \in {48, 50} THEN drawTri30(y)
        ELSE IF cmd \in {56, 58} THEN drawQuad38(y)
        ELSE IF cmd \in {60, 62} THEN drawQuad3E(y)
        ELSE IF cmd \in {96, 98} THEN drawRect60(y)
        ELSE IF cmd \in {100, 101, 102} THEN drawRect65(y)
        ELSE IF cmd = 116 THEN drawRect74(y)
        ELSE IF cmd = 120 THEN drawRect78(y)
        ELSE IF cmd \in {124, 125} THEN drawRect7C(y)
        ELSE IF cmd = 128 THEN copyVRAMToVRAM(y)
        ELSE IF cmd = 160 THEN copyCPUToVRAM(y)
        ELSE IF cmd = 192 THEN copyVRAMToCPU(y)
        ELSE [y EXCEPT !.g.cmdParam = <<>>, !.g.state = "ReceiveCommand"]

\* writeGP0, case GPUState::ReceiveArguments
receiveArguments(x, data) ==
    LET y == [x EXCEPT !.g.cmdParam = Append(@, data),
                       !.g.argCount = @ - 1]
    IN  IF y.g.argCount = 0 THEN execute(y) ELSE y

\* writeGP0, case GPUState::CopyRectangle
copyRectangle(x, data) ==
    LET c0 == x.g.dstCopyInfo
        c1 == advance(c0)
        c2 == advance(c1)
        y == writeAt(writeAt(x, c0.cx + 1024 * c0.cy, data.lo),
                     c1.cx + 1024 * c1.cy, data.hi)
    IN  [y EXCEPT !.g.dstCopyInfo = c2,
                  !.g.argCount = @ - 1,
                  !.g.state = IF x.g.argCount - 1 = 0 THEN "ReceiveCommand"
                              ELSE @]

\* writeGP0(data)
writeGP0(x, data) ==
    IF x.g.state = "ReceiveCommand" THEN receiveCommand(x, data)
    ELSE IF x.g.state = "ReceiveArguments" THEN receiveArguments(x, data)
    ELSE copyRectangle(x, data)

\* c.cx++; if (c.cx == c.xMax) { c.cy++; c.cx = c.xMin; }
advanceRead(c) ==
    IF c.cx + 1 = c.xMax THEN [c EXCEPT !.cy = @ + 1, !.cx = c.xMin]
    ELSE [c EXCEPT !.cx = @ + 1]

\* readGPUREAD(): [x, data]
readGPUREAD(x) ==
    IF x.g.state # "CopyRectangle"
    THEN [x |-> [x EXCEPT !.g.gpuread = W(0, 0)], data |-> x.g.gpuread]
    ELSE LET c0 == x.g.srcCopyInfo
             c1 == advanceRead(c0)
             c2 == advanceRead(c1)
             i0 == c0.cx + 1024 * c0.cy
             i1 == c1.cx + 1024 * c1.cy
             y == readAt(readAt(x, i0), i1)
         IN  [x |-> [y EXCEPT !.g.srcCopyInfo = c2,
                              !.g.argCount = @ - 1,
                              !.g.state = IF x.g.argCount - 1 = 0
                                          THEN "ReceiveCommand" ELSE @],
              data |-> W(vramRead(x, i1), vramRead(x, i0))]

\* The command streams written to GP0, each the words of one command; a
\* vertex or a position is W(y, x), a size W(h, w), a texture coordinate
\* W(clut or page, v << 8 | u)
Commands ==
    { <<W(0, 0)>>,                              \* 0x00 NOP
      <<W(256, 0)>>,                            \* 0x01 Clear Cache
      <<W(768, 0)>>,                            \* 0x03, not a command
      <<W(57600, 0)>>,                          \* 0xE1 draw mode 0
      <<W(57856, 0)>>,                          \* 0xE2 texture window 0
      <<W(58112, 1025)>>,                       \* 0xE3 area from (1, 1)
      <<W(58368, 2051)>>,                       \* 0xE4 area to (3, 2)
      <<W(58624, 2049)>>,                       \* 0xE5 offset (1, 1)
      <<W(58880, 0)>>,                          \* 0xE6 mask bit
      \* 0x02 fill 16 x 16 at (0, 0)
      <<W(512, 8), W(0, 0), W(1, 1)>>,
      \* 0x20 flat triangle (0,0) (4,0) (0,4)
      <<W(8192, 8), W(0, 0), W(0, 4), W(4, 0)>>,
      \* 0x28 flat quad (0,0) (4,0) (0,4) (4,4)
      <<W(10240, 8), W(0, 0), W(0, 4), W(4, 0), W(4, 4)>>,
      \* 0x2C textured quad, texel (4, 1), CLUT at (0, 1), page 0
      <<W(11264, 8), W(0, 0), W(64, 260), W(0, 4), W(0, 260), W(4, 0),
        W(0, 260), W(4, 4), W(0, 260)>>,
      \* 0x30 Gouraud triangle (0,0) (4,0) (0,4)
      <<W(12288, 8), W(0, 0), W(0, 8), W(0, 4), W(0, 8), W(4, 0)>>,
      \* 0x30 Gouraud triangle (0,0) (2,2) (4,4)
      <<W(12288, 8), W(0, 0), W(0, 8), W(2, 2), W(0, 8), W(4, 4)>>,
      \* 0x38 Gouraud quad (0,0) (4,0) (0,4) (4,4)
      <<W(14336, 8), W(0, 0), W(0, 8), W(0, 4), W(0, 8), W(4, 0), W(0, 8),
        W(4, 4)>>,
      \* 0x3C Gouraud textured quad, texel (4, 1), CLUT at (0, 1), page 0
      <<W(15360, 8), W(0, 0), W(64, 260), W(0, 8), W(0, 4), W(0, 260),
        W(0, 8), W(4, 0), W(0, 260), W(0, 8), W(4, 4), W(0, 260)>>,
      \* 0x60 flat rectangle 4 x 4 at (0, 0)
      <<W(24576, 1), W(0, 0), W(4, 4)>>,
      \* 0x64 textured rectangle 4 x 4 at (0, 0), texel (4, 1)
      <<W(25600, 1), W(0, 0), W(64, 260), W(4, 4)>>,
      \* 0x74 textured rectangle 8 x 8
      <<W(29696, 1), W(0, 0), W(64, 260)>>,
      \* 0x78 flat rectangle 8 x 8
      <<W(30720, 1), W(0, 0)>>,
      \* 0x7C textured rectangle 16 x 16
      <<W(31744, 1), W(0, 0), W(64, 260)>>,
      \* 0x80 VRAM->VRAM (1, 1) to (2, 1), 1 x 1
      <<W(32768, 0), W(1, 1), W(1, 2), W(1, 1)>>,
      \* 0x80 VRAM->VRAM from (0, 0xFFFF)
      <<W(32768, 0), W(65535, 0), W(1, 2), W(1, 1)>>,
      \* 0xA0 CPU->VRAM to (1, 1), 2 x 1, and the word of data
      <<W(40960, 0), W(1, 1), W(1, 2), W(1, 1)>>,
      \* 0xA0 CPU->VRAM to (0, 0xFFFF)
      <<W(40960, 0), W(65535, 0), W(1, 2), W(1, 1)>>,
      \* 0xC0 VRAM->CPU from (1, 1), 2 x 1
      <<W(49152, 0), W(1, 1), W(1, 2)>> }

\* the values a read outside vram[] or a division by zero may yield
JunkValues == {0, 1}

\* the words a stream may continue with after the words s
NextWords(s) ==
    {c[Len(s) + 1] : c \in {d \in Commands : /\ Len(d) > Len(s)
                                             /\ SubSeq(d, 1, Len(s)) = s}}

\* gpu.cpp's variables as they are defined, vram after vram.resize()
GpuInit ==
    /\ gpu = [state |-> "ReceiveCommand", argCount |-> 0, cmd |-> 0,
              cmdParam |-> <<>>,
              xyarea |-> [x0 |-> 0, x1 |-> 0, y0 |-> 0, y1 |-> 0],
              xyoffset |-> [xofs |-> 0, yofs |-> 0],
              texWindow |-> [maskX |-> 0, maskY |-> 0, ofsX |-> 0, ofsY |-> 0],
              dstCopyInfo |-> [cx |-> 0, cy |-> 0, xMin |-> 0, yMin |-> 0,
                               xMax |-> 0, yMax |-> 0],
              srcCopyInfo |-> [cx |-> 0, cy |-> 0, xMin |-> 0, yMin |-> 0,
                               xMax |-> 0, yMax |-> 0],
              drawMode |-> 0, gpuread |-> W(0, 0), gpustat |-> 7 * (2 ^ 26)]
    /\ vram = <<>>
    /\ gpuExited = FALSE
    /\ gpuOp = [op |-> "none", cmd |-> 0, nth |-> 0, runs |-> 0,
                reads |-> {}, writes |-> {}, pix |-> {},
                xyarea |-> [x0 |-> 0, x1 |-> 0, y0 |-> 0, y1 |-> 0],
                divZero |-> FALSE, fault |-> FALSE]
    /\ gpuStream = [words |-> <<>>, runs |-> 0, owed |-> 0, stray |-> 0]

\* a command about to take a word
Ctx(junk) ==
    [g |-> gpu, v |-> vram, reads |-> {}, writes |-> {}, pix |-> {},
     ub |-> FALSE, divZero |-> FALSE, junk |-> junk, exited |-> FALSE,
     irq |-> FALSE, ran |-> 0]

\* the accesses out of turn in one behaviour: writes to GP0 during a
\* readback and reads of GPUREAD during an upload
MaxStray == 1

\* a behaviour with an access out of turn ends with the command stream the
\* access was made in: no new stream is begun after it
StreamOpen == gpuStream.stray = 0 \/ gpuStream.words # <<>>

\* 1 for an access out of turn
Stray(op) == IF op \in {"gp0", "read"} THEN 0 ELSE 1

\* The state after an access r; where the access has done something
\* undefined, the process may also have ended in it
GpuOutcome(r, op, words, runs, owed) ==
    \E fault \in {FALSE, r.ub} :
        LET st == IF r.irq /\ ~fault THEN sendInterrupt(iSTAT, GPUIRQ)
                  ELSE iSTAT
            complete == words \in Commands
        IN  /\ gpu' = IF fault THEN gpu ELSE r.g
            /\ vram' = IF fault THEN vram ELSE r.v
            /\ gpuExited' = (fault \/ r.exited)
            /\ gpuOp' = [op |-> op, cmd |-> Opcode(words[1]),
                         nth |-> Len(words) - 1, runs |-> runs,
                         reads |-> r.reads, writes |-> r.writes,
                         pix |-> r.pix, xyarea |-> gpu.xyarea,
                         divZero |-> r.divZero, fault |-> fault]
            /\ gpuStream' = IF complete /\ owed = 0
                            THEN [words |-> <<>>, runs |-> 0, owed |-> 0,
                                  stray |-> gpuStream.stray + Stray(op)]
                            ELSE [words |-> words, runs |-> runs,
                                  owed |-> owed,
                                  stray |-> gpuStream.stray + Stray(op)]
            /\ iSTAT' = st
            /\ extIntPending' = checkInterrupt(st, iMASK)
            /\ intcOp' = IF st = iSTAT THEN intcOp
                         ELSE [op |-> "send", again |-> FALSE,
                               lineBefore |-> extIntPending]

\* bus::write32 at GP0 (0x1F801810), or a word of a GPU DMA: writeGP0(data),
\* data the next word of a command stream
GpuWriteGP0 ==
    /\ UNCHANGED <<schedVars, dmaVars, cpuVars, cdVars, execVars, runVars,
                   sioVars, timerVars, iMASK, intcAborted, busVars,
                   xferVars, gteVars, spuVars>>
    /\ ~gpuExited
    /\ gpuStream.owed = 0
    /\ StreamOpen
    /\ \E data \in NextWords(gpuStream.words), junk \in JunkValues :
          LET r == writeGP0(Ctx(junk), data)
              words == Append(gpuStream.words, data)
              owed == IF words \in Commands /\ Opcode(words[1]) = 192
                      THEN copyWords(words[3]) ELSE 0
          IN  GpuOutcome(r, "gp0", words, gpuStream.runs + r.ran, owed)

\* bus::read32 at GPUREAD (0x1F801810): readGPUREAD(), the words of a
\* VRAM->CPU copy being read back
GpuReadGPUREAD ==
    /\ UNCHANGED <<schedVars, dmaVars, cpuVars, cdVars, execVars, runVars,
                   sioVars, timerVars, iMASK, intcAborted, busVars,
                   xferVars, gteVars, spuVars>>
    /\ ~gpuExited
    /\ gpuStream.owed > 0
    /\ \E junk \in JunkValues :
          GpuOutcome(readGPUREAD(Ctx(junk)).x, "read", gpuStream.words,
                     gpuStream.runs, gpuStream.owed - 1)

(***************************************************************************)
(* bus.cpp: the RAM and the expansion regions                              *)
(*                                                                         *)
(* Addresses and words are 32-bit values written as the integer with the   *)
(* same two's complement bit pattern. The windows of the peripherals are   *)
(* modelled with their components; the accesses here go to the RAM, to     *)
(* the addresses between the RAM and the expansion regions, and to the     *)
(* expansion registers.                                                    *)
(***************************************************************************)

\* MemoryBase::RAM and MemorySize::RAM
MemoryBaseRAM == 0

MemorySizeRAM == 2097152

\* 0x1F801000, 0x1F801004, 0x1F801008 and 0x1F80101C
EXP1_BASE == 528486400

EXP2_BASE == 528486404

EXP1_SIZE == 528486408

EXP2_SIZE == 528486428

\* inRange(addr, base, size), which compares in 64 bits: an address with
\* bit 31 set is above every region (no region here ends above 0x7FFFFFFF)
inRange(addr, base, size) == addr >= 0 /\ addr >= base /\ addr < base + size

\* ram[addr]
ramByte(r, addr) == IF addr \in DOMAIN r THEN r[addr] ELSE 0

\* ram[addr] = data
ramSet(r, addr, data) ==
    IF data = 0
    THEN [i \in DOMAIN r \ {addr} |-> r[i]]
    ELSE [i \in DOMAIN r \cup {addr} |-> IF i = addr THEN data ELSE r[i]]

\* std::memcpy(&data, &ram[addr], n): the n bytes from addr, the least
\* significant first (the host is little-endian)
ramRead(r, addr, n) ==
    IF n = 1 THEN ramByte(r, addr)
    ELSE IF n = 2 THEN ramByte(r, addr) + 256 * ramByte(r, addr + 1)
    ELSE FromBytes([j \in 0..3 |-> ramByte(r, addr + j)])

RECURSIVE ramWriteBytes(_, _, _, _, _)
ramWriteBytes(r, addr, b, j, n) ==
    IF j = n THEN r
    ELSE ramWriteBytes(ramSet(r, addr + j, b[j]), addr, b, j + 1, n)

\* a copy that stores the n bytes the most significant first
ramWriteSwapped(r, addr, data, n) ==
    LET b == Bytes(data) IN
        ramWriteBytes(r, addr, [j \in 0..(n - 1) |-> b[n - 1 - j]], 0, n)

\* std::memcpy(&ram[addr], &data, n)
ramWrite(r, addr, data, n) == ramWriteBytes(r, addr, Bytes(data), 0, n)

\* the bus about to be accessed
Bus == [ram |-> ram, exp |-> expRegs, exited |-> busExited]

\* the default case of an access: "Unhandled ..." and exit(0)
busExit(x) == [x EXCEPT !.exited = TRUE]

\* read8(addr), read16(addr) and read32(addr): [x, data]
busRead8(x, addr) ==
    IF inRange(addr, x.exp.exp1Base, x.exp.exp1Size)
    THEN [x |-> x, data |-> 0]
    ELSE IF inRange(addr, MemoryBaseRAM, MemorySizeRAM)
         THEN [x |-> x, data |-> ramRead(x.ram, addr, 1)]
         ELSE [x |-> busExit(x), data |-> 0]

busRead16(x, addr) ==
    IF inRange(addr, MemoryBaseRAM, MemorySizeRAM)
    THEN [x |-> x, data |-> ramRead(x.ram, addr, 2)]
    ELSE [x |-> busExit(x), data |-> 0]

busRead32(x, addr) ==
    IF inRange(addr, MemoryBaseRAM, MemorySizeRAM)
    THEN [x |-> x, data |-> ramRead(x.ram, addr, 4)]
    ELSE IF addr = EXP2_SIZE
    THEN [x |-> x, data |-> x.exp.exp2Size]
    ELSE [x |-> busExit(x), data |-> 0]

\* 1 << ((data >> 16) & 0x1F)
expSize(data) == 2 ^ ((data \div 65536) % 32)

\* (base & 0xFF000000) | (data & 0xFFFFFF)
expBase(base, data) == (base - (base % 16777216)) + (data % 16777216)

\* write8(addr, data), write16(addr, data) and write32(addr, data)
busWrite8(x, addr, data) ==
    IF inRange(addr, x.exp.exp2Base, x.exp.exp2Size)
    THEN x
    ELSE IF inRange(addr, MemoryBaseRAM, MemorySizeRAM)
         THEN [x EXCEPT !.ram = ramSet(x.ram, addr, data)]
         ELSE busExit(x)

busWrite16(x, addr, data) ==
    IF inRange(addr, MemoryBaseRAM, MemorySizeRAM)
    THEN [x EXCEPT !.ram = ramWrite(x.ram, addr, data, 2)]
    ELSE busExit(x)

busWrite32(x, addr, data) ==
    IF inRange(addr, MemoryBaseRAM, MemorySizeRAM)
    THEN [x EXCEPT !.ram = ramWrite(x.ram, addr, data, 4)]
    ELSE IF addr = EXP1_BASE
    THEN [x EXCEPT !.exp.exp1Base = expBase(x.exp.exp1Base, data)]
    ELSE IF addr = EXP2_BASE
    THEN [x EXCEPT !.exp.exp2Base = expBase(x.exp.exp2Base, data)]
    ELSE IF addr = EXP1_SIZE
    THEN [x EXCEPT !.exp.exp1Size = expSize(data)]
    ELSE IF addr = EXP2_SIZE
    THEN [x EXCEPT !.exp.exp2Size = expSize(data)]
    ELSE busExit(x)

\* an access of w bytes
busRead(x, addr, w) ==
    IF w = 1 THEN busRead8(x, addr)
    ELSE IF w = 2 THEN busRead16(x, addr) ELSE busRead32(x, addr)

busWrite(x, addr, w, data) ==
    IF w = 1 THEN busWrite8(x, addr, data)
    ELSE IF w = 2 THEN busWrite16(x, addr, data)
    ELSE busWrite32(x, addr, data)

\* the writes of the CPU: <<addr, w, data>>. 0x10..0x13 and the last word
\* of the RAM, the same offsets in the three windows above the RAM, the
\* first address above the RAM, and the expansion registers as the BIOS
\* sets them (and the largest EXP2 there is)
BusStores ==
    { <<16, 1, 1>>, <<17, 1, 255>>, <<19, 1, 128>>,
      <<16, 2, 258>>, <<18, 2, 65280>>,
      <<16, 4, 16909060>>, <<16, 4, -130944>>,
      <<2097148, 4, -1>>, <<2097151, 1, 127>>,
      <<2097152, 1, 1>>, <<2097168, 4, 16909060>>,
      <<4194320, 2, 258>>, <<6291472, 1, 1>>,
      <<EXP1_BASE, 4, 520093696>>, <<EXP2_BASE, 4, 528490496>>,
      <<EXP1_SIZE, 4, 1254463>>, <<EXP2_SIZE, 4, 1966080>> }

\* the reads of the CPU: <<addr, w>>
BusLoads ==
    {<<s[1], s[2]>> : s \in {t \in BusStores : t[1] < EXP1_BASE}}
        \cup {<<2097168, 1>>, <<4194320, 4>>, <<6291472, 2>>}

NoXfer ==
    [chn |-> -1, madr |-> 0, size |-> 0, mod |-> 0, nodes |-> <<>>,
     sent |-> <<>>, ended |-> FALSE]

\* the bus after init(): ram.resize(0x200000), the expansion regions as
\* they are defined
BusInit ==
    /\ ram = <<>>
    /\ expRegs = [exp1Base |-> 520093696, exp1Size |-> 0,
                  exp2Base |-> 520093696, exp2Size |-> 0]
    /\ busExited = FALSE
    /\ busOp = [op |-> "none", addr |-> 0, w |-> 0, data |-> 0,
                wrote |-> {}]

\* The state after an access to the bus
BusOutcome(x, op, addr, w, data) ==
    /\ ram' = x.ram
    /\ expRegs' = x.exp
    /\ busExited' = x.exited
    /\ busOp' = [op |-> op, addr |-> addr, w |-> w, data |-> data,
                 wrote |-> IF /\ op = "read"
                              /\ busOp.op = "write"
                              /\ busOp.addr = addr
                              /\ busOp.w = w
                           THEN {busOp.data} ELSE {}]
    /\ dmaXfer' = NoXfer

\* a store of the CPU: bus::write8, write16 or write32
BusWrite ==
    /\ UNCHANGED <<gteVars, spuVars, schedVars, intcVars, dmaVars, cpuVars, cdVars,
                   execVars,
                   runVars, sioVars, timerVars, gpuVars, channels, dpcr,
                   dmaAborted>>
    /\ ~busExited
    /\ \E s \in BusStores :
          BusOutcome(busWrite(Bus, s[1], s[2], s[3]), "write", s[1], s[2],
                     s[3])

\* a load of the CPU: bus::read8, read16 or read32
BusRead ==
    /\ UNCHANGED <<gteVars, spuVars, schedVars, intcVars, dmaVars, cpuVars, cdVars,
                   execVars,
                   runVars, sioVars, timerVars, gpuVars, channels, dpcr,
                   dmaAborted>>
    /\ ~busExited
    /\ \E l \in BusLoads :
          LET r == busRead(Bus, l[1], l[2]) IN
              BusOutcome(r.x, "read", l[1], l[2], r.data)

(***************************************************************************)
(* dmac.cpp: the registers of a channel and the transfers                  *)
(***************************************************************************)

\* enum Mode
Burst == 0

Slice == 1

LinkedList == 2

\* the nodes one walk of a linked list visits
MaxNodes == 4

\* a word of the bus as gpu.cpp's operators take it, and back
ToW(x) == W((x \div 65536) % 65536, x % 65536)

FromW(d) == d.lo + 65536 * (IF d.hi >= 32768 THEN d.hi - 65536 ELSE d.hi)

\* the values written to D<c>_MADR: the head of the list at 0x40, the head
\* of the ordering table (with the bits of KSEG0 set) and 0x200040; the
\* end of the ordering table
MadrWrites == [c \in Channels |->
                  IF c = ChnGPU THEN {64, -2147483608, 2097216}
                  ELSE {40}]

\* the values written to D<c>_BCR: one block of two words; one word and
\* three words
BcrWrites == [c \in Channels |-> IF c = ChnGPU THEN {65538} ELSE {1, 3}]

\* the values written to D<c>_CHCR: 0x01000401 (linked list, to the GPU)
\* and 0x01000201 (slices, to the GPU); 0x11000002 (burst, decrementing,
\* forced)
ChcrWrites == [c \in Channels |->
                  IF c = ChnGPU THEN {16778241, 16777729}
                  ELSE {285212674}]

\* the value written to DPCR: 0x0F6F4B21, which enables both channels
DpcrWrites == {258951969}

\* The stores with which the CPU builds a display list, in program order,
\* <<addr, data>>: the node at 0x10 has one word and ends the list (its
\* link is 0x40); the node at 0x40 has two words, the second of them the
\* zero the RAM holds, and links back to 0x10. The words are whole GP0
\* commands: draw modes (0xE1) and no-operations (0x00)
ListProgram ==
    << <<20, -520093692>>, <<16, 25165888>>, <<68, -520093695>>,
       <<64, 33554448>> >>

\* the store the program makes after the last one
NextStores ==
    {ListProgram[i] : i \in {j \in 1..Len(ListProgram) :
        IF j = 1 THEN busOp.op = "none"
        ELSE ListProgram[j - 1] = <<busOp.addr, busOp.data>>}}

\* the channels after init(): all zero but the initial DRQs
XferInit ==
    /\ channels = [c \in Channels |->
                      [madr |-> 0, size |-> 0, count |-> 0, len |-> 0,
                       dir |-> FALSE, dec |-> FALSE, mod |-> 0,
                       fst |-> FALSE, drq |-> TRUE]]
    /\ dpcr = 0
    /\ dmaAborted = FALSE
    /\ dmaXfer = NoXfer

\* a transfer about to begin on channel c
Xfer(c, junk) ==
    [b |-> Bus, g |-> Ctx(junk), chn |-> channels[c], len |-> 0,
     nodes |-> <<>>, sent |-> <<>>, aborted |-> FALSE, hung |-> FALSE,
     ran |-> {}]

\* the process has ended in an access the transfer made
Ended(t) == t.b.exited \/ t.g.exited

\* gpu::writeGP0(bus::read32(chn.madr)); chn.madr += 4;
sendWord(t) ==
    LET r == busRead32(t.b, t.chn.madr) IN
        IF r.x.exited THEN [t EXCEPT !.b = r.x]
        ELSE [t EXCEPT !.g = writeGP0(t.g, ToW(r.data)),
                       !.sent = Append(@, r.data),
                       !.chn.madr = Wrap32Add(@, 4)]

\* a loop that leaves out the last of the n words
RECURSIVE sendAllButOne(_, _)
sendAllButOne(t, n) ==
    IF n <= 1 \/ Ended(t) THEN t ELSE sendAllButOne(sendWord(t), n - 1)

\* for (int i = 0; i < n; i++) { writeGP0(read32(chn.madr)); ... }
RECURSIVE sendWords(_, _)
sendWords(t, n) ==
    IF n = 0 \/ Ended(t) THEN t ELSE sendWords(sendWord(t), n - 1)

\* bus::write32(chn.madr, gpu::readGPUREAD()); chn.madr += 4; r is what
\* readGPUREAD() has returned
storeWord(t, r) ==
    LET b == busWrite32(t.b, t.chn.madr, FromW(r.data)) IN
        IF b.exited THEN [t EXCEPT !.g = r.x, !.b = b]
        ELSE [t EXCEPT !.g = r.x, !.b = b, !.chn.madr = Wrap32Add(@, 4)]

\* for (int i = 0; i < len; i++) { write32(chn.madr, readGPUREAD()); ... }
RECURSIVE recvWords(_, _)
recvWords(t, n) ==
    IF n = 0 \/ Ended(t) THEN t
    ELSE recvWords(storeWord(t, readGPUREAD(t.g)), n - 1)

\* header >> 24, header & (1 << 23) and header & 0x1FFFFC
headerSize(header) == (header \div 16777216) % 256

headerEnds(header) == (header \div 8388608) % 2 = 1

headerNext(header) == (header % 2097152) - (header % 4)

\* the node at t's MADR has been visited: t1 is the transfer after its
\* words
nodeVisited(t, header, t1) ==
    [t1 EXCEPT !.nodes =
        Append(@, <<t.chn.madr, header,
                    SubSeq(t1.sent, Len(t.sent) + 1, Len(t1.sent))>>)]

\* one turn of the while (true) of doGPU up to the test of bit 23: h is
\* what bus::read32(chn.madr) has returned for the header
visitNode(t, h) ==
    IF h.x.exited THEN [t EXCEPT !.b = h.x]
    ELSE nodeVisited(t, h.data,
                     sendWords([t EXCEPT !.chn.madr = Wrap32Add(@, 4),
                                         !.len = @ + headerSize(h.data)],
                               headerSize(h.data)))

\* The while (true) of doGPU, which visits at most fuel nodes here: a list
\* that has not ended by then keeps the transfer from returning
RECURSIVE linkedList(_, _)
RECURSIVE nextNode(_, _)
linkedList(t, fuel) ==
    IF fuel = 0 THEN [t EXCEPT !.hung = TRUE]
    ELSE nextNode(visitNode(t, busRead32(t.b, t.chn.madr)), fuel)

\* if (header & (1 << 23)) break; chn.madr = header & 0x1FFFFC;
nextNode(t, fuel) ==
    IF Ended(t) THEN t
    ELSE LET header == t.nodes[Len(t.nodes)][2] IN
             IF headerEnds(header) THEN t
             ELSE linkedList([t EXCEPT !.chn.madr = headerNext(header)],
                             fuel - 1)

\* the end of doGPU and of doOTC: the transfer-end event is scheduled and
\* BCR cleared
transferDone(t, c) ==
    IF Ended(t) \/ t.aborted \/ t.hung THEN t
    ELSE [t EXCEPT !.chn.count = 0, !.chn.size = 0, !.ran = {c}]

\* a failed assert()
xferAbort(t) == [t EXCEPT !.aborted = TRUE]

\* doGPU()
doGPU(t) ==
    LET chn == t.chn IN
    IF ~(chn.mod = Slice \/ chn.mod = LinkedList) \/ chn.dec
    THEN xferAbort(t)
    ELSE IF chn.mod = Slice
    THEN IF chn.len = 0 THEN xferAbort(t)
         ELSE IF chn.dir
              THEN transferDone(sendWords([t EXCEPT !.len = chn.len],
                                          chn.len), ChnGPU)
              ELSE transferDone(recvWords([t EXCEPT !.len = chn.len],
                                          chn.len), ChnGPU)
    ELSE IF ~chn.dir THEN xferAbort(t)
         ELSE transferDone(linkedList(t, MaxNodes), ChnGPU)

\* a loop that writes the address below into every word
RECURSIVE otcLoopNoEnd(_, _)
otcLoopNoEnd(t, i) ==
    IF i = 0 THEN t
    ELSE LET b == busWrite32(t.b, t.chn.madr, Wrap32Sub(t.chn.madr, 4))
         IN  IF b.exited THEN [t EXCEPT !.b = b]
             ELSE otcLoopNoEnd([t EXCEPT !.b = b,
                                         !.chn.madr = Wrap32Sub(@, 4)],
                               i - 1)

\* the loop of doOTC, i words to go
RECURSIVE otcLoop(_, _)
otcLoop(t, i) ==
    IF i = 0 THEN t
    ELSE LET data == IF i # 1 THEN Wrap32Sub(t.chn.madr, 4) ELSE 16777215
             b == busWrite32(t.b, t.chn.madr, data)
         IN  IF b.exited THEN [t EXCEPT !.b = b]
             ELSE otcLoop([t EXCEPT !.b = b,
                                    !.chn.madr = Wrap32Sub(@, 4)], i - 1)

\* doOTC()
doOTC(t) ==
    LET chn == t.chn IN
    IF chn.dir \/ chn.mod # Burst \/ ~chn.dec \/ chn.size = 0
    THEN xferAbort(t)
    ELSE transferDone(otcLoop(t, chn.size), ChnOTC)

\* startDMA(chn)
startDMA(t, c) == IF c = ChnGPU THEN doGPU(t) ELSE doOTC(t)

\* dpcr & (1 << (4 * chnID + 3))
cde(d, c) == (d \div (2 ^ (4 * c + 3))) % 2 = 1

\* the test of checkRunning and of checkRunningAll
running(chn, str, d, c) == (chn.drq \/ chn.fst) /\ cde(d, c) /\ str

\* The state after a write to a register of the DMA controller that starts
\* no transfer: chns and strs are the channels and their start bits as
\* written
NoTransfer(chns, strs) ==
    /\ channels' = chns
    /\ chcrStr' = strs
    /\ dmaXfer' = NoXfer
    /\ UNCHANGED <<ram, expRegs, busExited, busOp, gpuVars, dmaAborted,
                   transferEnds>>

\* The state after the transfer t of channel c
XferResult(t, c, chns, strs) ==
    /\ ~t.hung
    /\ t.ran # {} => transferEnds[c] < MaxTransfers
    /\ channels' = [chns EXCEPT ![c] = t.chn]
    /\ chcrStr' = strs
    /\ ram' = t.b.ram
    /\ expRegs' = t.b.exp
    /\ busExited' = t.b.exited
    /\ gpu' = t.g.g
    /\ vram' = t.g.v
    /\ gpuExited' = t.g.exited
    /\ dmaAborted' = t.aborted
    /\ transferEnds' = [transferEnds EXCEPT ![c] =
                           IF t.ran # {} THEN @ + 1 ELSE @]
    /\ dmaXfer' = [chn |-> c, madr |-> chns[c].madr,
                   size |-> chns[c].size, mod |-> chns[c].mod,
                   nodes |-> t.nodes, sent |-> t.sent,
                   ended |-> Ended(t) \/ t.aborted]
    /\ UNCHANGED <<busOp, gpuOp, gpuStream>>

\* The state after a write that starts the first of the channels cs, if
\* there is one. A transfer that does not return has no state after it
XferOutcome(chns, strs, cs) ==
    IF cs = {} THEN NoTransfer(chns, strs)
    ELSE \E c \in {d \in cs : \A o \in cs : d <= o} :
             XferResult(startDMA([Xfer(c, 0) EXCEPT !.chn = chns[c]], c),
                        c, chns, strs)

\* the process has not ended
Alive == ~busExited /\ ~gpuExited /\ ~dmaAborted

\* bus::write32 in the window of the DMA controller: write(addr, data) at
\* D<c>_MADR
DmacWriteMADR ==
    /\ UNCHANGED <<gteVars, spuVars, schedVars, intcVars, cpuVars, cdVars, execVars,
                   runVars,
                   sioVars, timerVars, dicr, dmaOp, dpcr>>
    /\ Alive
    /\ \E c \in Channels : \E data \in MadrWrites[c] :
          NoTransfer([channels EXCEPT
                         ![c].madr = (data % 16777216) - (data % 4)],
                     chcrStr)

\* write(addr, data) at D<c>_BCR
DmacWriteBCR ==
    /\ UNCHANGED <<gteVars, spuVars, schedVars, intcVars, cpuVars, cdVars, execVars,
                   runVars,
                   sioVars, timerVars, dicr, dmaOp, dpcr>>
    /\ Alive
    /\ \E c \in Channels : \E data \in BcrWrites[c] :
          LET size == data % 65536
              count == (data \div 65536) % 65536
          IN  NoTransfer([channels EXCEPT ![c].size = size,
                                          ![c].count = count,
                                          ![c].len = count * size],
                         chcrStr)

\* write(addr, data) at D<c>_CHCR, which ends in checkRunning(chn)
DmacWriteCHCR ==
    /\ UNCHANGED <<gteVars, spuVars, schedVars, intcVars, cpuVars, cdVars, execVars,
                   runVars,
                   sioVars, timerVars, dicr, dmaOp, dpcr>>
    /\ Alive
    /\ \E c \in Channels : \E data \in ChcrWrites[c] :
          LET chns == [channels EXCEPT
                          ![c].dir = data % 2 = 1,
                          ![c].dec = (data \div 2) % 2 = 1,
                          ![c].mod = (data \div 512) % 4,
                          ![c].fst = (data \div 268435456) % 2 = 1]
              strs == [chcrStr EXCEPT ![c] = (data \div 16777216) % 2 = 1]
          IN  XferOutcome(chns, strs,
                          IF running(chns[c], strs[c], dpcr, c)
                          THEN {c} ELSE {})

\* write(addr, data) at DPCR, which ends in checkRunningAll(): the first
\* channel that can run is started
DmacWriteDPCR ==
    /\ UNCHANGED <<gteVars, spuVars, schedVars, intcVars, cpuVars, cdVars, execVars,
                   runVars,
                   sioVars, timerVars, dicr, dmaOp>>
    /\ Alive
    /\ \E data \in DpcrWrites :
          LET can == {c \in Channels :
                         running(channels[c], chcrStr[c], data, c)}
          IN  /\ dpcr' = data
              /\ XferOutcome(channels, chcrStr, can)

\* a store of the CPU that writes a word of the display list
BusWriteList ==
    /\ UNCHANGED <<gteVars, spuVars, schedVars, intcVars, dmaVars, cpuVars, cdVars,
                   execVars,
                   runVars, sioVars, timerVars, gpuVars, channels, dpcr,
                   dmaAborted>>
    /\ Alive
    /\ \E s \in NextStores :
          BusOutcome(busWrite32(Bus, s[1], s[2]), "write", s[1], 4, s[2])

\* the word a program writes to GP0 while it reads a rectangle back: a
\* draw mode
ReadbackWrites == {W(57600, 0)}

\* bus::write32 at GP0 while the words of a VRAM->CPU copy are still being
\* read back: writeGP0(data)
GpuWriteInReadback ==
    /\ UNCHANGED <<schedVars, dmaVars, cpuVars, cdVars, execVars, runVars,
                   sioVars, timerVars, iMASK, intcAborted, busVars,
                   xferVars, gteVars, spuVars>>
    /\ ~gpuExited
    /\ gpuStream.owed > 0
    /\ gpu.state = "CopyRectangle"
    /\ gpuStream.stray < MaxStray
    /\ \E data \in ReadbackWrites, junk \in JunkValues :
          GpuOutcome(writeGP0(Ctx(junk), data), "gp0InReadback",
                     gpuStream.words,
                     gpuStream.runs, gpuStream.owed)

\* bus::read32 at GPUREAD while the data of a CPU->VRAM copy is still being
\* written: readGPUREAD()
GpuReadInUpload ==
    /\ UNCHANGED <<schedVars, dmaVars, cpuVars, cdVars, execVars, runVars,
                   sioVars, timerVars, iMASK, intcAborted, busVars,
                   xferVars, gteVars, spuVars>>
    /\ ~gpuExited
    /\ gpuStream.owed = 0
    /\ gpu.state = "CopyRectangle"
    /\ gpuStream.stray < MaxStray
    /\ \E junk \in JunkValues :
          GpuOutcome(readGPUREAD(Ctx(junk)).x, "readInUpload",
                     gpuStream.words,
                     gpuStream.runs, 0)

(***************************************************************************)
(* gte.cpp: the geometry transformation engine                             *)
(***************************************************************************)

\* the accesses to the coprocessor in one behaviour
MaxGteOps == 4

\* enum Opcode, GTEReg and ControlReg
RTPT == 48
VX0 == 0
VZ2 == 8
RT11RT12 == 0
RT33 == 4
TRX == 5
TRZ == 7
OFX == 24
H == 26
DCA == 27
DCB == 28

\* a u32 as its two halves: w << n and w >> n (logical) for n < 32, the
\* sum and the two's complement modulo 2^32
shl32(w, n) ==
    IF n >= 16 THEN W((w.lo % (2 ^ (32 - n))) * (2 ^ (n - 16)), 0)
    ELSE W((w.hi % (2 ^ (16 - n))) * (2 ^ n) + (w.lo \div (2 ^ (16 - n))),
           (w.lo % (2 ^ (16 - n))) * (2 ^ n))

shr32(w, n) ==
    IF n >= 16 THEN W(0, w.hi \div (2 ^ (n - 16)))
    ELSE W(w.hi \div (2 ^ n),
           (w.lo \div (2 ^ n)) + (w.hi % (2 ^ n)) * (2 ^ (16 - n)))

add32(x, y) ==
    W((x.hi + y.hi + ((x.lo + y.lo) \div 65536)) % 65536,
      (x.lo + y.lo) % 65536)

neg32(x) == add32(W(65535 - x.hi, 65535 - x.lo), W(0, 1))

\* the product of x and a byte k, and of x and y, modulo 2^32
mulByte(x, k) ==
    W((x.hi * k + ((x.lo * k) \div 65536)) % 65536, (x.lo * k) % 65536)

mul32(x, y) ==
    add32(add32(mulByte(x, y.lo % 256),
                shl32(mulByte(x, y.lo \div 256), 8)),
          add32(shl32(mulByte(x, y.hi % 256), 16),
                shl32(mulByte(x, y.hi \div 256), 24)))

\* the bits of a 16-bit value up to its highest set one
bitLength(x) ==
    CHOOSE k \in 0..16 : x < 2 ^ k /\ (k = 0 \/ x >= 2 ^ (k - 1))

\* std::__countl_zero of a u32
countl_zero(w) ==
    IF w.hi > 0 THEN 16 - bitLength(w.hi) ELSE 32 - bitLength(w.lo)

\* data >> n of a signed value (an arithmetic shift)
sar(data, n) ==
    IF n >= 31 THEN (IF data < 0 THEN -1 ELSE 0) ELSE data \div (2 ^ n)

\* data >> shift as the build computes it for an i64: a count of 64 or more
\* is undefined; the processor either takes the count modulo 64 or fills
\* the value with its sign
ShiftModes == {"masked", "filled"}

shiftRight(data, shift, mode) ==
    IF shift < 64 THEN sar(data, shift)
    ELSE IF mode = "masked" THEN sar(data, shift % 64)
    ELSE sar(data, 63)

\* static const u8 unrTable[]
unrTable == <<
    255, 253, 251, 249, 247, 245, 243, 241, 239, 238, 236, 234, 232, 230, 228, 227,
    225, 223, 221, 220, 218, 216, 214, 213, 211, 209, 208, 206, 205, 203, 201, 200,
    198, 197, 195, 193, 192, 190, 189, 187, 186, 184, 183, 181, 180, 178, 177, 176,
    174, 173, 171, 170, 169, 167, 166, 164, 163, 162, 160, 159, 158, 156, 155, 154,
    153, 151, 150, 149, 148, 146, 145, 144, 143, 141, 140, 139, 138, 137, 135, 134,
    133, 132, 131, 130, 129, 127, 126, 125, 124, 123, 122, 121, 120, 119, 117, 116,
    115, 114, 113, 112, 111, 110, 109, 108, 107, 106, 105, 104, 103, 102, 101, 100,
    99, 98, 97, 96, 95, 94, 93, 93, 92, 91, 90, 89, 88, 87, 86, 85,
    84, 83, 83, 82, 81, 80, 79, 78, 77, 77, 76, 75, 74, 73, 72, 72,
    71, 70, 69, 68, 67, 67, 66, 65, 64, 63, 63, 62, 61, 60, 60, 59,
    58, 57, 57, 56, 55, 54, 54, 53, 52, 51, 51, 50, 49, 49, 48, 47,
    46, 46, 45, 44, 44, 43, 42, 42, 41, 40, 40, 39, 38, 38, 37, 36,
    36, 35, 34, 34, 33, 32, 32, 31, 30, 30, 29, 29, 28, 27, 27, 26,
    25, 25, 24, 24, 23, 22, 22, 21, 21, 20, 20, 19, 18, 18, 17, 17,
    16, 15, 15, 14, 14, 13, 13, 12, 12, 11, 10, 10, 9, 9, 8, 8,
    7, 7, 6, 6, 5, 5, 4, 4, 3, 3, 2, 2, 1, 1, 0, 0,
    0
>>

TableSize == 257

\* the bytes a read past the end of unrTable may return
JunkBytes == {0, 255}

\* div(a, b) after the saturation test: a and b normalized by the leading
\* zeros of the 32-bit b, the index into the table, and the quotient with
\* the byte t read from the table
divShift(b) == countl_zero(ToW(b))

divIndex(b) ==
    LET bn == shl32(ToW(b), divShift(b))
        ix == shr32(add32(bn, neg32(W(0, 32704))), 7)
    IN  ix.hi * 65536 + ix.lo

divQuotient(a, b, t) ==
    LET an == shl32(ToW(a), divShift(b))
        bn == shl32(ToW(b), divShift(b))
        u  == 257 + t
        bo == W(bn.hi, BitOr(bn.lo, 32768))
        d1 == shr32(add32(mul32(bo, neg32(ToW(u))), W(0, 128)), 8)
        d2 == shr32(add32(mul32(ToW(u), add32(W(2, 0), d1)), W(0, 128)), 8)
        n  == shr32(add32(mul32(an, d2), W(0, 32768)), 16)
    IN  IF n.hi > 1 THEN 131071 ELSE n.hi * 65536 + n.lo

\* u32 div(u32 a, u32 b): [a, b, sat, index, ub, n]; index is -1 when the
\* table is not read, ub tells that the read is outside the table and t is
\* then the byte it returned
div(a, b, t) ==
    IF 2 * b <= a
    THEN [a |-> a, b |-> b, sat |-> TRUE, index |-> -1, ub |-> FALSE,
          n |-> 131071]
    ELSE IF divIndex(b) < TableSize
    THEN [a |-> a, b |-> b, sat |-> FALSE, index |-> divIndex(b),
          ub |-> FALSE, n |-> divQuotient(a, b, unrTable[divIndex(b) + 1])]
    ELSE [a |-> a, b |-> b, sat |-> FALSE, index |-> divIndex(b),
          ub |-> TRUE, n |-> divQuotient(a, b, t)]

\* a value clipped to lo..hi
clip(x, lo, hi) == IF x > hi THEN hi ELSE IF x < lo THEN lo ELSE x

\* pushSXY(x, y)
pushSXY(g, x, y) ==
    [g EXCEPT !.sxy = <<g.sxy[2], g.sxy[3],
                        W(clip(y, -1024, 1023) % 65536,
                          clip(x, -1024, 1023) % 65536)>>]

\* pushSZ(data)
pushSZ(g, data) ==
    [g EXCEPT !.sz = <<g.sz[2], g.sz[3], g.sz[4], clip(data, 0, 65535)>>]

IR_MIN == <<0, -32768, -32768, -32768>>
IR_MAX == <<4096, 32767, 32767, 32767>>

\* setIR(idx, data, lm)
setIR(g, idx, data, lm) ==
    [g EXCEPT !.ir[idx] =
        clip(data, IF lm THEN 0 ELSE IR_MIN[idx + 1], IR_MAX[idx + 1])]

\* setMAC(idx, data, shift)
setMAC(g, idx, data, shift, mode) ==
    [g EXCEPT !.mac[idx] = shiftRight(data, shift, mode)]

\* extsMAC(idx, data): the sign extension from 44 bits (31 for MAC0); the
\* sums of the model lie within 31 bits, which it leaves as they are
extsMAC(idx, data) == data

\* the sum of row r of the rotation for vector i
rtptSum(g, r, i) ==
    extsMAC(r + 1,
            extsMAC(r + 1, 4096 * g.tr[r + 1]
                           + g.rt[r + 1][1] * g.v[i + 1][1])
            + g.rt[r + 1][2] * g.v[i + 1][2]
            + g.rt[r + 1][3] * g.v[i + 1][3])

\* iRTPT, the body of the loop after the sums x, y, z, up to the new
\* screen Z
rtptIR(m, z, shift, lm, nsf, mode) ==
    pushSZ(setIR(setIR(setIR(m, 1, m.mac[1], lm), 2, m.mac[2], lm),
                 3, shiftRight(z, shift, mode), FALSE),
           sar(m.mac[3], 12 * nsf))

rtptMac(g, x, y, z, shift, lm, nsf, mode) ==
    rtptIR(setMAC(setMAC(setMAC(g, 1, x, shift, mode), 2, y, shift, mode),
                  3, z, shift, mode),
           z, shift, lm, nsf, mode)

\* iRTPT, the rest of the body: the division q, the screen XY and the depth
\* cue
rtptScreen(g, q) ==
    setIR(setMAC(pushSXY(g, q.n * g.ir[1] + g.ofx, q.n * g.ir[2] + g.ofy),
                 0, q.n * g.dca + g.dcb, 0, "masked"),
          0, sar(q.n * g.dca + g.dcb, 12), TRUE)

\* the body of the loop of iRTPT for vector i: [g, sums, q]
rtptVector(g, i, shift, lm, nsf, mode, t) ==
    LET m == rtptMac(g, rtptSum(g, 0, i), rtptSum(g, 1, i), rtptSum(g, 2, i),
                     shift, lm, nsf, mode)
    IN  [g |-> rtptScreen(m, div(m.h, m.sz[4], t)),
         sums |-> <<rtptSum(g, 0, i), rtptSum(g, 1, i), rtptSum(g, 2, i)>>,
         q |-> div(m.h, m.sz[4], t)]

\* iRTPT(cmd): [g, sums, divs, ub], the sums of the last vector and the
\* three divisions
rtptResult(a, b, c) ==
    [g |-> c.g, sums |-> c.sums, divs |-> <<a.q, b.q, c.q>>,
     ub |-> a.q.ub \/ b.q.ub \/ c.q.ub]

rtptThird(a, b, shift, lm, nsf, mode, t) ==
    rtptResult(a, b, rtptVector(b.g, 2, shift, lm, nsf, mode, t))

rtptSecond(a, shift, lm, nsf, mode, t) ==
    rtptThird(a, rtptVector(a.g, 1, shift, lm, nsf, mode, t),
              shift, lm, nsf, mode, t)

iRTPT(g, cmd, mode, t) ==
    LET lm  == Bit(cmd, 10)
        sf  == IF Bit(cmd, 19) THEN 524288 ELSE 0
        nsf == IF Bit(cmd, 19) THEN 0 ELSE 1
    IN  rtptSecond(rtptVector(g, 0, 12 * sf, lm, nsf, mode, t),
                   12 * sf, lm, nsf, mode, t)

\* the registers after reset: objects of static storage, all zero
GteRegs ==
    [v   |-> <<<<0, 0, 0>>, <<0, 0, 0>>, <<0, 0, 0>>>>,
     rt  |-> <<<<0, 0, 0>>, <<0, 0, 0>>, <<0, 0, 0>>>>,
     tr  |-> <<0, 0, 0>>,
     ir  |-> [i \in 0..3 |-> 0],
     mac |-> [i \in 0..3 |-> 0],
     sxy |-> <<W(0, 0), W(0, 0), W(0, 0)>>,
     sz  |-> <<0, 0, 0, 0>>,
     ofx |-> 0, ofy |-> 0, h |-> 0, dca |-> 0, dcb |-> 0]

NoGteOp == [op |-> "none", cmd |-> 0, sums |-> <<0, 0, 0>>, divs |-> <<>>]

GteInit ==
    /\ gte = GteRegs
    /\ gteOp = NoGteOp
    /\ gteExited = FALSE
    /\ gteAborted = FALSE
    /\ gteCount = 0

\* an i16 from the low half of a written word
toI16(x) ==
    IF x % 65536 >= 32768 THEN (x % 65536) - 65536 ELSE x % 65536

\* set(idx, data)
gteSet(g, idx, data) ==
    IF idx \in VX0..VZ2
    THEN [g EXCEPT !.v[(idx \div 3) + 1][(idx % 3) + 1] = toI16(data)]
    ELSE g

\* setControl(idx, data)
setControl(g, idx, data) ==
    CASE idx = RT11RT12 -> [g EXCEPT !.rt[1][1] = toI16(data),
                                     !.rt[1][2] = toI16(data \div 65536)]
      [] idx = RT33 -> [g EXCEPT !.rt[3][3] = toI16(data)]
      [] idx \in TRX..TRZ -> [g EXCEPT !.tr[idx - TRX + 1] = data]
      [] idx = OFX -> [g EXCEPT !.ofx = data]
      [] idx = H   -> [g EXCEPT !.h = data % 65536]
      [] idx = DCA -> [g EXCEPT !.dca = toI16(data)]
      [] idx = DCB -> [g EXCEPT !.dcb = data]
      [] OTHER -> g

\* the registers the program writes and the values it writes to them
SetWrites == {<<VX0, 1>>, <<VZ2, 2>>}

ControlWrites ==
    {<<RT11RT12, 65537>>, <<RT33, 1>>, <<TRX, 1>>, <<TRZ, 1>>, <<TRZ, 256>>,
     <<H, 1>>, <<H, 512>>, <<OFX, 16>>, <<DCA, 1>>}

\* the commands the program gives: RTPT with sf clear, with sf set, with sf
\* and lm set, and a command other than RTPT
GteCmds == {48, 524336, 525360, 1}

\* the process runs and the coprocessor has been accessed fewer than
\* MaxGteOps times
GteAlive == ~gteExited /\ ~gteAborted /\ gteCount < MaxGteOps

\* MTC2 / LWC2: gte::set(idx, data)
GteSet ==
    /\ UNCHANGED notGteVars
    /\ GteAlive
    /\ gteCount' = gteCount + 1
    /\ \E s \in SetWrites :
          /\ gte' = gteSet(gte, s[1], s[2])
          /\ gteOp' = [NoGteOp EXCEPT !.op = "set"]
    /\ UNCHANGED <<gteExited, gteAborted>>

\* CTC2: gte::setControl(idx, data)
GteSetControl ==
    /\ UNCHANGED notGteVars
    /\ GteAlive
    /\ gteCount' = gteCount + 1
    /\ \E s \in ControlWrites :
          /\ gte' = setControl(gte, s[1], s[2])
          /\ gteOp' = [NoGteOp EXCEPT !.op = "setControl"]
    /\ UNCHANGED <<gteExited, gteAborted>>

\* The state after iRTPT with the result r: a read outside the table may
\* end the process
RtptOutcome(r, cmd) ==
    \E fault \in {FALSE, r.ub} :
       /\ gte' = IF fault THEN gte ELSE r.g
       /\ gteAborted' = fault
       /\ gteOp' = [op |-> "RTPT", cmd |-> cmd, sums |-> r.sums,
                    divs |-> r.divs]
       /\ UNCHANGED gteExited

\* COP2 command: gte::doCmd(cmd)
GteDoCmd ==
    /\ UNCHANGED notGteVars
    /\ GteAlive
    /\ gteCount' = gteCount + 1
    /\ \E cmd \in GteCmds :
          IF cmd % 64 = RTPT
          THEN \E mode \in ShiftModes : \E t \in JunkBytes :
                  RtptOutcome(iRTPT(gte, cmd, mode, t), cmd)
          ELSE /\ gteExited' = TRUE
               /\ gteOp' = [NoGteOp EXCEPT !.op = "exit", !.cmd = cmd]
               /\ UNCHANGED <<gte, gteAborted>>

GteNext == GteSet \/ GteSetControl \/ GteDoCmd

(***************************************************************************)
(* spu.cpp: the voices and their envelopes                                 *)
(***************************************************************************)

\* the writes to the registers of the sound unit in one behaviour
MaxSpuWrites == 7

\* enum class SPUReg (the registers of voice 0 and the global ones)
PITCH == 528489476
ADSR == 528489480
ADSRVOL == 528489484
MVOLL == 528489856
KON == 528489864
KOFF == 528489868
SPUCNT == 528489898

\* enum ADSR
Off == 0
Attack == 1
Decay == 2
Sustain == 3
Release == 4

INC_TABLE == <<7, 6, 5, 4>>
DEC_TABLE == <<-8, -7, -6, -5>>

\* the voices of the model
Voices == {0}

\* a / b of two ints in C++: the quotient truncated towards zero
truncDiv(a, b) == IF a < 0 THEN -((-a) \div b) ELSE a \div b

\* std::max(0, a)
max0(a) == IF a > 0 THEN a ELSE 0

\* clamp16(a)
clamp16(a) == IF a > 32767 THEN 32767 ELSE IF a < 0 THEN 0 ELSE a

\* a voice after std::memset(&voices, 0, ...); flags is adpcmBlock[1], the
\* flags of the block the voice plays
Voice0 ==
    [on |-> FALSE, adsr |-> Off, amode |-> FALSE, smode |-> FALSE,
     rmode |-> FALSE, sdir |-> FALSE, ashift |-> 0, dshift |-> 0,
     sshift |-> 0, rshift |-> 0, astep |-> 0, sstep |-> 0, slevel |-> 0,
     adsrvol |-> 0, adsrCounter |-> 0, adsrStep |-> 0, pitch |-> 0,
     pitchCounter |-> 0, hasBlock |-> FALSE, flags |-> 0]

\* the counter and the step of the attack phase
attackCounter(v) ==
    (2 ^ max0(v.ashift - 11))
        * (IF v.amode /\ v.adsrvol > 24576 THEN 4 ELSE 1)

\* startADSR(vID)
startADSR(v) ==
    [v EXCEPT !.adsr = Attack,
              !.adsrCounter = attackCounter(v),
              !.adsrStep = INC_TABLE[v.astep + 1] * (2 ^ max0(11 - v.ashift))]

\* the counter and the step of the decay phase
decayParams(v) ==
    [v EXCEPT !.adsrCounter = 2 ^ max0(v.dshift - 11),
              !.adsrStep = truncDiv((-8) * (2 ^ max0(11 - v.dshift))
                                    * v.adsrvol, 32768)]

\* the step of the sustain phase before its exponential scaling
sustainStep(v) ==
    (IF v.sdir THEN DEC_TABLE[v.sstep + 1] ELSE INC_TABLE[v.sstep + 1])
        * (2 ^ max0(11 - v.sshift))

\* the counter and the step of the sustain phase
sustainParams(v) ==
    [v EXCEPT !.adsrCounter =
                  (2 ^ max0(v.sshift - 11))
                      * (IF v.smode /\ ~v.sdir /\ v.adsrvol > 24576
                         THEN 4 ELSE 1),
              !.adsrStep =
                  IF v.smode /\ v.sdir
                  THEN truncDiv(sustainStep(v) * v.adsrvol, 32768)
                  ELSE sustainStep(v)]

\* the step of the release phase
releaseStep(v) ==
    IF v.rmode
    THEN truncDiv((-8) * (2 ^ max0(11 - v.rshift)) * v.adsrvol, 32768)
    ELSE (-8) * (2 ^ max0(11 - v.rshift))

\* the counter and the step of the release phase
releaseParams(v) ==
    [v EXCEPT !.adsrCounter = 2 ^ max0(v.rshift - 11),
              !.adsrStep = releaseStep(v)]

\* doRelease(vID)
doRelease(v) == releaseParams([v EXCEPT !.adsr = Release])

\* stepADSR(vID) after the counter has reached 0 and the volume has been
\* stepped: the switch on the phase
nextPhase(v) ==
    CASE v.adsr = Attack ->
            IF v.adsrvol = 32767
            THEN decayParams([v EXCEPT !.adsr = Decay])
            ELSE [v EXCEPT !.adsrCounter = attackCounter(v)]
      [] v.adsr = Decay ->
            IF v.adsrvol <= v.slevel
            THEN sustainParams([v EXCEPT !.adsr = Sustain])
            ELSE decayParams(v)
      [] v.adsr = Sustain -> sustainParams(v)
      [] v.adsr = Release ->
            IF v.adsrvol = 0
            THEN [v EXCEPT !.adsr = Off, !.on = FALSE]
            ELSE releaseParams(v)
      [] OTHER -> v

\* stepADSR(vID)
stepADSR(v) ==
    IF v.adsrCounter - 1 # 0
    THEN [v EXCEPT !.adsrCounter = v.adsrCounter - 1]
    ELSE nextPhase([v EXCEPT !.adsrCounter = 0,
                             !.adsrvol = clamp16(v.adsrvol + v.adsrStep)])

\* step(), the end of a block: the flags of its header
blockEnd(v) ==
    [(CASE v.flags % 4 = 1 -> [doRelease(v) EXCEPT !.adsrvol = 0]
        [] v.flags % 4 = 3 -> doRelease(v)
        [] OTHER -> v)
     EXCEPT !.pitchCounter = 0, !.hasBlock = FALSE]

\* step(), the pitch counter of a voice after its sample
pitchStep(v) ==
    [v EXCEPT !.pitchCounter =
        v.pitchCounter + (IF v.pitch > 16383 THEN 16384 ELSE v.pitch)]

\* step(), the body of the loop for a voice that plays; flags is the second
\* byte of the block it loads if it has none. The samples, which the
\* envelope does not depend on, are left out
playVoice(v) ==
    IF pitchStep(v).pitchCounter \div 4096 >= 28
    THEN blockEnd(pitchStep(v))
    ELSE pitchStep(v)

stepVoice(v, flags) ==
    IF ~v.on \/ v.pitch = 0 THEN v
    ELSE playVoice(stepADSR([v EXCEPT !.hasBlock = TRUE,
                                      !.flags = IF v.hasBlock THEN v.flags
                                                ELSE flags]))

\* doKON() and doKOFF() for one voice
keyOn(v, kon, i) ==
    IF Bit(kon, i) THEN [startADSR(v) EXCEPT !.on = TRUE] ELSE v

keyOff(v, koff, i) == IF Bit(koff, i) THEN doRelease(v) ELSE v

\* write(addr, data) to a register of voice vID
writeVoice(v, reg, data) ==
    CASE reg = PITCH -> [v EXCEPT !.pitch = data]
      [] reg = ADSR ->
            [v EXCEPT !.slevel = ((data % 16) + 1) * 2048,
                      !.dshift = (data \div 16) % 16,
                      !.astep = (data \div 256) % 4,
                      !.ashift = (data \div 1024) % 32,
                      !.amode = Bit(data, 15)]
      [] reg = ADSR + 2 ->
            [v EXCEPT !.rshift = data % 32,
                      !.rmode = Bit(data, 5),
                      !.sstep = (data \div 64) % 4,
                      !.sshift = (data \div 256) % 32,
                      !.sdir = Bit(data, 14),
                      !.smode = Bit(data, 15)]
      [] reg = ADSRVOL -> [v EXCEPT !.adsrvol = IF data < 0 THEN 0 ELSE data]
      [] OTHER -> v

\* write(addr, data)
spuWrite(s, addr, data) ==
    IF addr < MVOLL
    THEN [s EXCEPT !.voices[(addr \div 16) % 32] =
             writeVoice(@, addr - 16 * ((addr \div 16) % 32), data)]
    ELSE CASE addr = KON -> [s EXCEPT !.kon = (s.kon \div 65536) * 65536 + data]
           [] addr = KON + 2 ->
                 [s EXCEPT !.kon = (s.kon % 65536) + 65536 * data,
                           !.voices = [i \in Voices |->
                               keyOn(s.voices[i],
                                     (s.kon % 65536) + 65536 * data, i)]]
           [] addr = KOFF ->
                 [s EXCEPT !.koff = (s.koff \div 65536) * 65536 + data]
           [] addr = KOFF + 2 ->
                 [s EXCEPT !.koff = (s.koff % 65536) + 65536 * data,
                           !.voices = [i \in Voices |->
                               keyOff(s.voices[i],
                                      (s.koff % 65536) + 65536 * data, i)]]
           [] addr = SPUCNT ->
                 [s EXCEPT !.unmute = Bit(data, 14), !.spuen = Bit(data, 15)]
           [] OTHER -> s

\* step(): the voices after one sample
spuStep(s, flags) ==
    IF s.spuen /\ s.unmute
    THEN [s EXCEPT !.voices = [i \in Voices |-> stepVoice(s.voices[i], flags)]]
    ELSE s

\* the registers the program writes and the values it writes to them
SpuWrites ==
    {<<SPUCNT, 49152>>, <<PITCH, 16384>>, <<KON, 1>>, <<KON + 2, 0>>,
     <<KOFF, 1>>, <<KOFF + 2, 0>>, <<ADSR + 2, 32>>, <<ADSR + 2, 44>>,
     <<ADSRVOL, 32768>>}

\* the flags in the header of a block of the sample data: ram holds zeros
\* after init(), and the model does not write it
BlockFlags == {0}

SpuInit ==
    /\ spu = [voices |-> [i \in Voices |-> Voice0], kon |-> 0, koff |-> 0,
              spuen |-> FALSE, unmute |-> FALSE]
    /\ spuOp = [op |-> "none", addr |-> 0]
    /\ spuWrites = 0

\* a 16-bit store to a register of the sound unit
SpuWrite ==
    /\ UNCHANGED notSpuVars
    /\ spuWrites < MaxSpuWrites
    /\ \E w \in SpuWrites :
          /\ spu' = spuWrite(spu, w[1], w[2])
          /\ spuOp' = [op |-> "write", addr |-> w[1]]
    /\ spuWrites' = spuWrites + 1

\* the step event fires: step(). init() schedules the event and step()
\* schedules it again, so it is pending in every state
SpuStep ==
    /\ UNCHANGED notSpuVars
    /\ \E flags \in BlockFlags :
          /\ spu' = spuStep(spu, flags)
          /\ spuOp' = [op |-> "step", addr |-> 0]
    /\ UNCHANGED spuWrites

SpuNext == SpuWrite \/ SpuStep

(***************************************************************************)
(* The initial state: every component after its init()                     *)
(***************************************************************************)

Init ==
    /\ SchedInit
    /\ IntcInit
    /\ DmacInit
    /\ CpuInit
    /\ CdInit
    /\ ExecInit
    /\ RunInit
    /\ SioInit
    /\ TimerInit
    /\ GpuInit
    /\ BusInit
    /\ XferInit
    /\ GteInit
    /\ SpuInit

SpecSched == Init /\ [][SchedNext]_vars

(***************************************************************************)
(* Claims about the scheduler, checked under SpecSched                     *)
(***************************************************************************)

\* C1: when processEvents returns, the staging queue is empty (every staged
\* event has been moved into the live queue) and the cached next deadline is
\* the smallest cyclesUntilEvent among the live events.
C1_ReturnMergesStaging ==
    returned =>
        /\ nextEvents = <<>>
        /\ cyclesUntilNextEvent = reschedule(events)

\* C2: under the main loop's fixed 64-cycle drains no live event's counter
\* is ever negative.
C2_LiveCountersNonNegative ==
    \A i \in 1..Len(events) : events[i].cyc >= 0

\* C3: an event that a callback enqueues with addEvent while processEvents
\* is running is not fired by that same processEvents call, whatever its
\* delay (0 included).
C3_CallbackEventNotFiredInSameDrain ==
    \A i \in 1..Len(lastFired) : ~lastFired[i].fresh

\* C15: when processEvents returns, every event that is live has been visited
\* exactly once by its loop, also when a callback has called removeEvent on
\* its own id.
C15_EveryLiveEventVisitedOnce ==
    returned => \A i \in 1..Len(events) : visits[events[i].param] = 1

C3_Witness ==
    /\ returned
    /\ lastFired # <<>>
    /\ \E i \in 1..Len(nextEvents) : nextEvents[i].fresh /\ nextEvents[i].cyc = 0

IntcNext ==
    \/ IntcWriteMask
    \/ IntcWriteStat
    \/ IntcSend

SpecIntc == Init /\ [][IntcNext]_vars

(***************************************************************************)
(* Claims about the interrupt controller, checked under SpecIntc           *)
(***************************************************************************)

\* C5: after every completed sendInterrupt, I_STAT write and I_MASK write,
\* the level last published to COP0 is ((I_STAT & I_MASK) # 0).
C5_LineIsStatAndMask ==
    ~intcAborted => (extIntPending = ((iSTAT \cap iMASK) # {}))

\* C5's case: all three operations have acted: a write to I_MASK is the last
\* operation, a request is latched in I_STAT and the line is asserted.
C5_Witness ==
    /\ intcOp.op = "writeMask"
    /\ iSTAT \cap iMASK # {}
    /\ iSTAT \ iMASK # {}
    /\ extIntPending

\* C17: no write to I_MASK is refused: whatever combination of the eleven
\* sources a write enables, writeMask completes, and I_MASK holds bits of
\* 0x7FF only.
C17_MaskWriteThrough ==
    /\ ~intcAborted
    /\ iMASK \subseteq Bits7FF

\* C6: a send for a source whose I_STAT bit is already set leaves COP0's line
\* as it was (no new trigger), and an I_STAT write never raises the line.
C6_NoRetrigger ==
    /\ (intcOp.op = "send" /\ intcOp.again) => (extIntPending = intcOp.lineBefore)
    /\ intcOp.op = "writeStat" => (extIntPending => intcOp.lineBefore)

\* C6's case: a source that was already pending and enabled has been sent
\* again.
C6_WitnessSend ==
    /\ intcOp.op = "send"
    /\ intcOp.again
    /\ intcOp.lineBefore
    /\ extIntPending

\* C6's other case: an acknowledge has cleared a pending, enabled bit.
C6_WitnessAck ==
    /\ intcOp.op = "writeStat"
    /\ intcOp.lineBefore
    /\ ~extIntPending
    /\ iMASK # {}


(***************************************************************************)
(* The DMA controller with the interrupt controller behind it              *)
(***************************************************************************)

DmaNext ==
    \/ DmaWriteCHCR
    \/ DmaWriteDICR
    \/ DmaTransferEnd

SpecDma == Init /\ [][DmaNext]_vars

\* C8: the DMA interrupt is sent to the interrupt controller by exactly those
\* operations (a transfer end, a DICR write) that take DICR.MIF from 0 to 1,
\* and by no other.
C8_SentOnMifRisingEdge ==
    /\ dmaOp.sent <=> (dmaOp.op # "none" /\ ~dmaOp.mifBefore /\ dicr.mif)
    /\ dmaOp.sent => (intcOp.op = "send" /\ DMA \in iSTAT)

\* C8's case: a transfer end has raised MIF and sent the interrupt.
C8_WitnessTransferEnd ==
    /\ dmaOp.op = "transferEnd"
    /\ dmaOp.sent
    /\ dicr.mif
    /\ DMA \in iSTAT

\* C8's other cases: a DICR write has raised MIF and sent the interrupt; MIF
\* has stayed high through a transfer end and nothing was sent.
C8_WitnessWriteDICR ==
    /\ dmaOp.op = "writeDICR"
    /\ dmaOp.sent
    /\ dicr.mif

C8_WitnessNoEdge ==
    /\ dmaOp.op = "transferEnd"
    /\ dmaOp.mifBefore
    /\ dicr.mif
    /\ dmaOp.chn \in dicr.ip \ dmaOp.ipBefore
    /\ ~dmaOp.sent

\* C9: a transfer end on channel c clears c's CHCR.str, sets c's DICR pending
\* bit exactly if c's mask bit is set, and changes no other pending bit.
C9_TransferEnd ==
    dmaOp.op = "transferEnd" =>
        /\ ~chcrStr[dmaOp.chn]
        /\ dicr.ip = dmaOp.ipBefore \cup ({dmaOp.chn} \cap dicr.im)

\* C9's case: a transfer end on an enabled channel has set its pending bit
\* while another channel's bit was pending.
C9_WitnessMasked ==
    /\ dmaOp.op = "transferEnd"
    /\ dmaOp.chn \in dicr.im
    /\ dmaOp.chn \in dicr.ip \ dmaOp.ipBefore
    /\ dmaOp.ipBefore # {}

\* C9's other case: a transfer end on a channel whose mask bit is clear has
\* left the pending bits alone.
C9_WitnessUnmasked ==
    /\ dmaOp.op = "transferEnd"
    /\ dmaOp.chn \notin dicr.im
    /\ dmaOp.chn \notin dicr.ip
    /\ dicr.ip = dmaOp.ipBefore
    /\ dicr.ip # {}


(***************************************************************************)
(* The CPU running arbitrary programs, with VBLANK as its interrupt        *)
(***************************************************************************)

CpuNext ==
    \/ CpuStep
    \/ CpuInterrupt
    \/ CpuVBlank
    \/ CpuWriteMask
    \/ CpuWriteStat

SpecCpu == Init /\ [][CpuNext]_vars

\* C10 as stated: whenever a taken branch at p has executed, the instruction
\* executed next is the one at p + 4 and the one executed after that is the
\* one at the branch target.
C10_BranchDelayAlways ==
    \A i \in 1..Len(trace) :
        trace[i].taken =>
            /\ i + 1 <= Len(trace) => trace[i + 1].cpc = Add32(trace[i].cpc, 4)
            /\ i + 2 <= Len(trace) => trace[i + 2].cpc = trace[i].target

\* an instruction after which control goes where the program says: it has
\* raised no exception and no interrupt was taken right after it
Undisturbed(e) == ~e.raised /\ ~e.interrupted

\* C10: whenever a taken branch at p has executed without raising an
\* exception (its target is word-aligned), then, unless an interrupt is taken
\* first, the instruction executed next is the one at p + 4, and unless that
\* one raises an exception or is followed by an interrupt, the one executed
\* after it is the one at the branch target.
C10_BranchDelay ==
    \A i \in 1..Len(trace) :
        (trace[i].taken /\ Undisturbed(trace[i])) =>
            /\ i + 1 <= Len(trace) => trace[i + 1].cpc = Add32(trace[i].cpc, 4)
            /\ (i + 2 <= Len(trace) /\ Undisturbed(trace[i + 1])) =>
                   trace[i + 2].cpc = trace[i].target

\* C10's case: a taken branch, its delay slot and the instruction at its
\* target have executed in a row.
C10_Witness ==
    /\ Len(trace) = 3
    /\ trace[1].taken
    /\ trace[2].cpc = Add32(trace[1].cpc, 4)
    /\ trace[3].cpc = trace[1].target
    /\ trace[3].cpc # Add32(trace[2].cpc, 4)


\* the instruction an exception is charged to is in a branch-delay slot: the
\* instruction executed before it was a branch or jump that completed.  An
\* interrupt is charged to the instruction that would have executed next; any
\* other exception to the instruction that raised it, the last of the trace.
InDelaySlot ==
    LET n == Len(trace) IN
        IF cpu.excode = Interrupt
        THEN n >= 1 /\ trace[n].branch /\ ~trace[n].raised
        ELSE /\ n >= 2
             /\ trace[n - 1].branch
             /\ ~trace[n - 1].raised
             /\ ~trace[n - 1].interrupted

\* C11: when an exception or an interrupt has just been raised, EPC and
\* CAUSE.BD tell whether the instruction was in a branch-delay slot (EPC =
\* cpc - 4 and BD = 1 if so, EPC = cpc and BD = 0 if not), both entries of the
\* branch-delay buffer are clear, and PC is 0xBFC00180 if BEV is set and
\* 0x80000080 if not.
C11_ExceptionEntry ==
    (cpu.run /\ cpu.raised) =>
        /\ cpu.bd = InDelaySlot
        /\ cpu.epc = IF InDelaySlot THEN Sub32(cpu.cpc, 4) ELSE cpu.cpc
        /\ ~cpu.ds0 /\ ~cpu.ds1
        /\ cpu.pc = IF cpu.bev THEN VECTOR_BEV ELSE VECTOR_RAM

\* an instruction in a delay slot raised an exception while BEV was clear
C11_Witness ==
    /\ cpu.run /\ cpu.raised /\ cpu.excode = SystemCall
    /\ InDelaySlot /\ cpu.bd /\ ~cpu.bev

\* an interrupt was taken between a branch and its delay slot
C11_WitnessInterrupt ==
    /\ cpu.run /\ cpu.raised /\ cpu.excode = Interrupt
    /\ InDelaySlot /\ cpu.bd

\* an exception was raised outside a delay slot
C11_WitnessNoSlot ==
    /\ cpu.run /\ cpu.raised /\ ~InDelaySlot /\ ~cpu.bd
(***************************************************************************)
(* The data path                                                           *)
(***************************************************************************)

ExecNext ==
    \/ ExecLUI
    \/ ExecArith
    \/ ExecStore
    \/ ExecMTC0

SpecExec == Init /\ [][ExecNext]_vars

\* the last instruction raised the Overflow exception and left its
\* destination register as it was
OverflowRaised ==
    /\ cpu.raised
    /\ cpu.excode = Overflow
    /\ regs[execOp.dest] = execOp.destBefore

\* the sum of a and b does not fit 32 bits: a and b have the same sign and
\* the sum has the other
SumOverflows(a, b) ==
    \/ a >= 0 /\ b >= 0 /\ a > 2147483647 - b
    \/ a < 0 /\ b < 0 /\ a < (-2147483647 - 1) - b

\* the difference of a and b does not fit 32 bits: a and b have different
\* signs and the difference has the sign of b
DifferenceOverflows(a, b) ==
    \/ a >= 0 /\ b < 0 /\ a > 2147483647 + b
    \/ a < 0 /\ b >= 0 /\ a < (-2147483647 - 1) + b

\* C12, as stated: ADD, ADDI and SUB on operands (a, b) of the same sign
\* whose sum has the other sign raise Overflow and leave the destination
\* register unchanged.
C12_OverflowOnSumAlways ==
    (execOp.op \in {"ADD", "ADDI", "SUB"} /\ SumOverflows(execOp.a, execOp.b))
        => OverflowRaised

\* C12, amended: ADD and ADDI on operands of the same sign whose sum has the
\* other sign, and SUB on operands of different signs whose difference has
\* the sign of the subtrahend, raise Overflow and leave the destination
\* register unchanged.
C12_OverflowNotWritten ==
    /\ (execOp.op \in {"ADD", "ADDI"} /\ SumOverflows(execOp.a, execOp.b))
           => OverflowRaised
    /\ (execOp.op = "SUB" /\ DifferenceOverflows(execOp.a, execOp.b))
           => OverflowRaised

\* an ADD of two registers has overflowed into a register that held a value
C12_Witness ==
    /\ execOp.op = "ADD"
    /\ SumOverflows(execOp.a, execOp.b)
    /\ execOp.destBefore # 0
    /\ OverflowRaised

\* an ADDI has overflowed
C12_WitnessADDI ==
    execOp.op = "ADDI" /\ SumOverflows(execOp.a, execOp.b) /\ OverflowRaised

\* a SUB has overflowed
C12_WitnessSUB ==
    /\ execOp.op = "SUB"
    /\ DifferenceOverflows(execOp.a, execOp.b)
    /\ OverflowRaised

\* C13: a store executed while the cache is isolated changes no word of RAM
\* or of the scratchpad.
C13_IsolatedStoresAreNoOps ==
    (execOp.op \in Stores /\ execOp.isc) => mem = execOp.memBefore

(***************************************************************************)
(* The main loop                                                           *)
(***************************************************************************)

RunNext ==
    \/ RunStart
    \/ RunCpuStep
    \/ RunTimerStep
    \/ RunProcessEvents

SpecRun == Init /\ [][RunNext]_vars

\* C14: on the BIOS that jumps to its own reset vector, run() goes through
\* its quanta without an assertion failing or the emulator exiting and
\* without an exception, and the quanta end with PC at the reset vector.
C14_RunsItsQuanta ==
    /\ ~main.aborted
    /\ cpu.run
    /\ ~main.excs
    /\ main.phase \in {"timer", "sched", "stopped"} => cpu.pc = RESET_VECTOR

\* the scanlines that have ended after the quanta run so far
LinesDue == (RUN_CYCLES * main.quanta) \div CYCLES_PER_SCANLINE

\* C26: run() is not ended by the scheduler, and after every quantum the
\* line counter is the number of scanlines that have ended, modulo 262, a
\* scanline taking 3413 cycles; VBLANK has been raised once line 240 has been
\* reached, and not before.
C26_ScanlinesRecur ==
    /\ ~main.aborted
    /\ main.phase \in {"cpu", "stopped"} =>
           /\ lineCounter = LinesDue % SCANLINES_PER_FRAME
           /\ (VBLANK \in iSTAT) = (LinesDue >= SCANLINES_PER_VDRAW)

(***************************************************************************)
(* The CDROM: commands, acknowledges and the quanta between them           *)
(***************************************************************************)

CdNext ==
    \/ Flush
    \/ CdWriteIndex
    \/ CdCommand
    \/ CdWriteIF
    \/ CdWriteIE
    \/ CdReadResponse
    \/ CdDrain

SpecCD == Init /\ [][CdNext]_vars

SioNext ==
    \/ Flush
    \/ SioWriteTx
    \/ SioWriteCtrl
    \/ SioRead8
    \/ SioSetInput

SpecSio == Init /\ [][SioNext]_vars

\* the write has scheduled exactly one ACK, ACK_TIME cycles away, and the
\* byte it will deliver is b
SchedulesACK(b) ==
    /\ Len(sioOp.acks) = 1
    /\ sioOp.acks[1].id = idSendACK
    /\ sioOp.acks[1].cyc = ACK_TIME
    /\ sioOp.acks[1].param % 256 = b

\* the last write was the nth of a read of the pad and wrote data: a write
\* that is not the first since the port was Idle follows writes that all
\* left the port busy
NthWrite(n, data) ==
    /\ sioOp.nth = n
    /\ sioOp.data = data
    /\ ~sioOp.aborted
    /\ n = 1 => sioOp.slot1

\* C18 as stated: 0x01 in Idle with slot 1 selected moves to SendID with an
\* ACK of 0xFF; the next write, 0x42, moves to SendButtons with an ACK of
\* 0x5A; the two writes after it schedule ACKs of the low and the high byte
\* of the button bitmap, and the state is Idle again.
C18_ReadInFourWrites ==
    /\ NthWrite(1, 1) => (sioOp.after = "SendID" /\ SchedulesACK(255))
    /\ NthWrite(2, 66) => (sioOp.after = "SendButtons" /\ SchedulesACK(90))
    /\ NthWrite(3, 0) => SchedulesACK(sioOp.keys % 256)
    /\ NthWrite(4, 0) =>
           (SchedulesACK(sioOp.keys \div 256) /\ sioOp.after = "Idle")

\* C18, amended: 0x01 in Idle with slot 1 selected moves to SendID with an
\* ACK of 0xFF; the next write, 0x42, stays in SendID with an ACK of 0x41;
\* the write after it, 0x00, moves to SendButtons with an ACK of 0x5A; the
\* two writes of 0x00 after that schedule ACKs of the low and the high byte
\* of the button bitmap, and the state is Idle again.
C18_ReadInFiveWrites ==
    /\ NthWrite(1, 1) => (sioOp.after = "SendID" /\ SchedulesACK(255))
    /\ NthWrite(2, 66) => (sioOp.after = "SendID" /\ SchedulesACK(65))
    /\ NthWrite(3, 0) => (sioOp.after = "SendButtons" /\ SchedulesACK(90))
    /\ NthWrite(4, 0) =>
           (sioOp.after = "SendButtons" /\ SchedulesACK(sioOp.keys % 256))
    /\ NthWrite(5, 0) =>
           (sioOp.after = "Idle" /\ SchedulesACK(sioOp.keys \div 256))
    /\ sioOp.nth <= 5

\* C18's case: the fifth write of a read of the pad, 0x01 0x42 0x00 0x00
\* 0x00, has been made with buttons held, and the port is Idle again.
C18_Witness ==
    /\ NthWrite(5, 0)
    /\ sioOp.keys = 48861
    /\ state = "Idle"

\* C19: a write to JOY_TX_FIFO of a byte other than the one the state
\* expects (0x01 with slot 1 selected in Idle, 0x42 in SendID) leaves the
\* state Idle and pushes 0xFF into the RX FIFO.
C19_UnexpectedByteResets ==
    (\/ sioOp.nth = 1 /\ ~(sioOp.data = 1 /\ sioOp.slot1)
     \/ sioOp.nth = 2 /\ sioOp.data # 66) =>
        /\ ~sioOp.aborted
        /\ sioOp.after = "Idle"
        /\ sioOp.pushed = <<255>>

(***************************************************************************)
(* Claims about the CDROM's GetID, checked under SpecCD                    *)
(***************************************************************************)

\* the last write to the command port was GetID, made under index i with the
\* response FIFO empty and the interrupt flags clear, and the program has
\* neither read a response nor acknowledged a flag since
GetIDWritten(i) ==
    /\ cdOp.data = CmdGetID
    /\ cdOp.index = i
    /\ cdOp.clean

\* 30 000 cycles after that write: the quanta drained so far end before the
\* 30 000th cycle and the next drain that finds an event due ends after it
After30000 ==
    /\ cdOp.elapsed <= 30000
    /\ 30000 < cdOp.elapsed + Quanta * RUN_CYCLES

\* iFlags & 7 == 3, and the response FIFO yields stat, 0x02, 0x00, 0x20,
\* 0x00, 'M', 'A', 'R', 'I'
GetIDAnswered ==
    /\ iFlags \cap {0, 1, 2} = {0, 1}
    /\ Len(responseFIFO) >= 9
    /\ SubSeq(responseFIFO, 1, 9) =
           <<StatByte(stat), 2, 0, 32, 0, 77, 65, 82, 73>>

C20_WitnessReading ==
    /\ GetIDWritten(0)
    /\ After30000
    /\ StatRead \in stat

(***************************************************************************)
(* The timers: register accesses and steps                                 *)
(***************************************************************************)

TimerNext ==
    \/ TimerStart
    \/ TimerWriteMode
    \/ TimerWriteComp
    \/ TimerWriteCount
    \/ TimerReadMode
    \/ TimerStep

SpecTimer == Init /\ [][TimerNext]_vars

\* C21: after MODE = 0x0100 and then COMP = 0x0008 have been written to
\* timer 2 and the timers have been stepped for 80 cycles, timer 2's COUNT
\* is 10 and timer 2 has sent no interrupt.
C21_Timer2CountsEighths ==
    (/\ timerProg.tm = 2
     /\ timerProg.mode = 256
     /\ timerProg.comp = 8
     /\ timerProg.exact
     /\ timerProg.cycles = 80) =>
        /\ timers[2].count = 10
        /\ ~timerProg.raised

\* the last access was a step in which the timer last programmed had n
\* compare or overflow events (calls of sendInterrupt)
TimerEvents(n) == timerOp.op = "step" /\ timerOp.calls = n

\* the timer last programmed is in repeat and level mode
RepeatLevel == timerOp.before.rept /\ timerOp.before.levl

\* C22 as stated: a compare or overflow event sets the timer's intf, a read
\* of its MODE register clears intf, and in repeat and level mode an event
\* toggles intf instead.
C22_IntfSetAtEvent ==
    /\ (timerOp.op = "step" /\ timerOp.calls >= 1 /\ ~RepeatLevel) =>
           timers[timerOp.tm].mode.intf
    /\ timerOp.op = "readMode" => ~timers[timerOp.tm].mode.intf
    /\ (TimerEvents(1) /\ RepeatLevel) =>
           timers[timerOp.tm].mode.intf = ~timerOp.before.intf

\* C22, amended: a compare or overflow event sets the timer's equf or ovff
\* and clears its intf, sending the timer's interrupt if intf was set; a
\* read of its MODE register clears equf and ovff and leaves intf; in repeat
\* and level mode an event toggles intf instead.
C22_IntfClearedAtEvent ==
    /\ (timerOp.op = "step" /\ timerOp.calls >= 1) =>
           /\ timers[timerOp.tm].mode.equf \/ timers[timerOp.tm].mode.ovff
           /\ ~RepeatLevel => ~timers[timerOp.tm].mode.intf
           /\ timerOp.calls = 1 => (timerOp.sent = timerOp.before.intf)
    /\ timerOp.op = "readMode" =>
           /\ ~timers[timerOp.tm].mode.equf
           /\ ~timers[timerOp.tm].mode.ovff
           /\ timers[timerOp.tm].mode.intf = timerOp.before.intf
    /\ (TimerEvents(1) /\ RepeatLevel) =>
           timers[timerOp.tm].mode.intf = ~timerOp.before.intf

\* C22's case: a compare event of a timer that is not in repeat and level
\* mode has sent the timer's interrupt.
C22_Witness ==
    /\ TimerEvents(1)
    /\ ~RepeatLevel
    /\ timerOp.sent
    /\ timers[timerOp.tm].mode.equf

\* C22's case, the toggle: an event in repeat and level mode has set intf
\* again.
C22_WitnessToggle ==
    /\ TimerEvents(1)
    /\ RepeatLevel
    /\ ~timerOp.before.intf
    /\ timers[timerOp.tm].mode.intf

\* C22's case, the read: a read of MODE has cleared a flag an event had set.
C22_WitnessRead ==
    /\ timerOp.op = "readMode"
    /\ timerOp.before.equf \/ timerOp.before.ovff
    /\ timerOp.before.intf

\* C22's case, the overflow: the counter has passed 0xFFFF with the overflow
\* interrupt enabled.
C22_WitnessOverflow ==
    /\ timerOp.op = "step"
    /\ timerOp.calls >= 1
    /\ timers[timerOp.tm].mode.ovff

GpuNext ==
    \/ GpuWriteGP0
    \/ GpuReadGPUREAD

\* The GPU under command streams written to GP0 and read back from GPUREAD
SpecGpu == Init /\ [][GpuNext]_vars

\* The argument counts of the table of GP0 opcodes, 0x74, 0x78 and 0x7C
\* taking one or two
ListedArgs ==
    [c \in {0, 1, 225, 226, 227, 228, 229, 230} |-> {0}] @@
    [c \in {2, 96, 98, 160, 192} |-> {2}] @@
    [c \in {32, 34, 100, 101, 102, 128} |-> {3}] @@
    [c \in {40, 42, 43} |-> {4}] @@
    [c \in {44, 45, 46, 47} |-> {8}] @@
    [c \in {48, 50} |-> {5}] @@
    [c \in {56, 58} |-> {7}] @@
    [c \in {60, 62} |-> {11}] @@
    [c \in {116, 120, 124} |-> {1, 2}]

\* the last access wrote a word of a command of the table
TableWord == gpuOp.op = "gp0" /\ gpuOp.cmd \in DOMAIN ListedArgs

\* C23: a command of the GP0 table is not executed before its listed number
\* of argument words has been written; once that many have been written it
\* has been executed once, the argument FIFO is empty and the state is
\* ReceiveCommand again, CopyRectangle for the CPU->VRAM and VRAM->CPU copies
C23_ExecutesAtListedCount ==
    TableWord =>
        LET listed == ListedArgs[gpuOp.cmd]
        IN  /\ (\A m \in listed : gpuOp.nth < m) => gpuOp.runs = 0
            /\ (\A m \in listed : gpuOp.nth >= m) => gpuOp.runs = 1
            /\ (gpuOp.nth \in listed /\ gpuOp.runs = 1) =>
                   /\ ~gpuExited
                   /\ gpu.cmdParam = <<>>
                   /\ gpu.state = IF gpuOp.cmd \in {160, 192}
                                  THEN "CopyRectangle" ELSE "ReceiveCommand"

\* C24: every cell of VRAM an access to GP0 or GPUREAD reads or writes is a
\* cell of the 1024 x 512 array
C24_AccessesInsideVram ==
    \A i \in gpuOp.reads \cup gpuOp.writes : InVram(i)

\* C25: every pixel a primitive draws lies inside the drawing area the
\* command found
C25_PixelsInsideDrawingArea ==
    \A p \in gpuOp.pix :
        /\ gpuOp.xyarea.x0 <= p[1] /\ p[1] < gpuOp.xyarea.x1
        /\ gpuOp.xyarea.y0 <= p[2] /\ p[2] < gpuOp.xyarea.y1

\* the flat triangle (0,0) (4,0) (0,4) has drawn the two pixels of it that
\* the drawing area (1,1)-(3,2) holds
C25_Witness ==
    /\ gpuOp.cmd = 32 /\ gpuOp.runs = 1 /\ ~gpuOp.fault
    /\ gpuOp.xyarea = [x0 |-> 1, x1 |-> 3, y0 |-> 1, y1 |-> 2]
    /\ gpuOp.pix = {<<1, 1>>, <<2, 1>>}

\* a primitive of each other kind has drawn a pixel
C25_WitnessFill == gpuOp.cmd = 2 /\ gpuOp.pix # {}

C25_WitnessGouraud == gpuOp.cmd = 56 /\ gpuOp.pix # {}

C25_WitnessTexturedQuad == gpuOp.cmd = 44 /\ gpuOp.pix # {}

C25_WitnessGouraudTextured == gpuOp.cmd = 60 /\ gpuOp.pix # {}

C25_WitnessRect == gpuOp.cmd = 96 /\ gpuOp.pix # {}

C25_WitnessTexturedRect == gpuOp.cmd = 100 /\ gpuOp.pix # {}

(***************************************************************************)
(* The bus and the DMA transfers                                           *)
(***************************************************************************)

BusNext == BusWrite \/ BusRead

SpecBus == Init /\ [][BusNext]_vars

XferNext ==
    \/ BusWriteList
    \/ DmacWriteMADR
    \/ DmacWriteBCR
    \/ DmacWriteCHCR
    \/ DmacWriteDPCR

SpecXfer == Init /\ [][XferNext]_vars

(***************************************************************************)
(* Claims about the DMA transfers, checked under SpecXfer                  *)
(***************************************************************************)

\* the count and the link of a node's header, {next:24, count:8}
CountOf(header) == (header \div 16777216) % 256

LinkOf(header) == header % 16777216

LastOf(header) == (header \div 8388608) % 2 = 1

\* the 32-bit word the RAM holds at an address
WordAt(addr) == ramRead(ram, addr, 4)

RECURSIVE Payloads(_)
Payloads(ns) ==
    IF ns = <<>> THEN <<>> ELSE ns[1][3] \o Payloads(Tail(ns))

\* a linked-list transfer of the GPU channel has run through
ListWalked ==
    dmaXfer.chn = ChnGPU /\ dmaXfer.mod = LinkedList /\ ~dmaXfer.ended

\* C27: a linked-list GPU transfer that starts at MADR visits the nodes in
\* link order (the first node is the one at MADR, each further node the one
\* the header before it links to), sends exactly the header's count words
\* of each visited node to GP0 (the words that follow the header in RAM, in
\* order), and stops after the first node whose header has bit 23 set:
\* that node is the last one visited and nothing else is sent.
C27_ListWalkedInLinkOrder ==
    ListWalked =>
        LET ns == dmaXfer.nodes IN
            /\ Len(ns) >= 1
            /\ ns[1][1] = dmaXfer.madr
            /\ \A i \in 1..Len(ns) :
                  /\ ns[i][2] = WordAt(ns[i][1])
                  /\ ns[i][3] = [j \in 1..CountOf(ns[i][2]) |->
                                    WordAt(ns[i][1] + 4 * j)]
                  /\ LastOf(ns[i][2]) <=> i = Len(ns)
                  /\ i < Len(ns) => ns[i + 1][1] = LinkOf(ns[i][2])
            /\ dmaXfer.sent = Payloads(ns)

\* a list of two nodes, the second (at the lower address) with bit 23 set
\* and a link back to the first: three words are sent
C27_Witness ==
    /\ ListWalked
    /\ Len(dmaXfer.nodes) = 2
    /\ dmaXfer.nodes[1][1] = 64
    /\ dmaXfer.nodes[2][1] = 16
    /\ dmaXfer.sent = <<-520093695, 0, -520093692>>

\* the list an OTC burst has written: three nodes without words
C27_WitnessTable ==
    /\ ListWalked
    /\ dmaXfer.madr = 40
    /\ Len(dmaXfer.nodes) = 3
    /\ dmaXfer.sent = <<>>

\* an OTC burst has run through
TableCleared == dmaXfer.chn = ChnOTC /\ ~dmaXfer.ended

\* C28: after an OTC burst of N words that starts at MADR = A, the word at
\* address A - 4k is A - 4(k + 1) for every k < N - 1, and the last word
\* written, the one at A - 4(N - 1), is 0xFFFFFF.
C28_ReverseList ==
    TableCleared =>
        LET A == dmaXfer.madr
            N == dmaXfer.size
        IN  /\ N >= 1
            /\ \A k \in 0..(N - 2) : WordAt(A - 4 * k) = A - 4 * (k + 1)
            /\ WordAt(A - 4 * (N - 1)) = 16777215

C28_Witness ==
    /\ TableCleared
    /\ dmaXfer.madr = 40
    /\ dmaXfer.size = 3
    /\ WordAt(40) = 36
    /\ WordAt(32) = 16777215

\* a burst of one word, which is the last one
C28_WitnessOne ==
    /\ TableCleared
    /\ dmaXfer.madr = 40
    /\ dmaXfer.size = 1
    /\ WordAt(40) = 16777215

(***************************************************************************)
(* Claims about the bus, checked under SpecBus                             *)
(***************************************************************************)

\* the last access was made at an address of the three windows above the
\* RAM, 0x200000 to 0x7FFFFF
AboveRam ==
    /\ busOp.op \in {"read", "write"}
    /\ inRange(busOp.addr, MemorySizeRAM, 3 * MemorySizeRAM)

\* C29: the 2 MiB of RAM appear four times in an 8 MiB window: an access at
\* a + k * 0x200000 (a in the RAM, k = 1, 2, 3) reads and writes the cell of
\* RAM an access at a does, so after it the emulator runs and the value
\* written or read is what the RAM holds at a.
C29_RamMirrored ==
    AboveRam =>
        /\ ~busExited
        /\ busOp.data = ramRead(ram, busOp.addr % MemorySizeRAM, busOp.w)

\* a read follows a write of the same width at the same address of the RAM,
\* aligned to the width
ReadBack ==
    /\ busOp.op = "read"
    /\ busOp.wrote # {}
    /\ inRange(busOp.addr, MemoryBaseRAM, MemorySizeRAM)
    /\ busOp.addr % busOp.w = 0

\* C30: for every address a of the RAM, [0, 0x200000), and every width w of
\* 1, 2 or 4 with a % w = 0, a bus read at (a, w) that follows a bus write
\* of v at (a, w) returns v.
C30_ReadReturnsWritten ==
    ReadBack => ~busExited /\ busOp.wrote = {busOp.data}

\* a word with bit 31 set, read back
C30_Witness ==
    ReadBack /\ busOp.w = 4 /\ busOp.addr = 16 /\ busOp.data = -130944

C30_WitnessHalf ==
    ReadBack /\ busOp.w = 2 /\ busOp.addr = 18 /\ busOp.data = 65280

C30_WitnessByte ==
    ReadBack /\ busOp.w = 1 /\ busOp.addr = 2097151 /\ busOp.data = 127

C30_WitnessLastWord ==
    ReadBack /\ busOp.w = 4 /\ busOp.addr = 2097148 /\ busOp.data = -1

(***************************************************************************)
(* The register file, checked under SpecRegs: the data path with $zero as  *)
(* a destination too                                                       *)
(***************************************************************************)

RegsNext == ExecNext \/ ExecZero

SpecRegs == Init /\ [][RegsNext]_vars

\* C31: after every executed instruction register 0 holds 0, so every read
\* of it (regs[0] as a source operand) yields 0; an instruction whose
\* destination is register 0 leaves it 0.
C31_ZeroStaysZero == regs[0] = 0

\* LUI $zero, 0x7FFF has been executed with a non-zero register beside it
C31_Witness ==
    /\ execOp.op = "LUI"
    /\ execOp.dest = 0
    /\ execOp.b = 32767
    /\ regs[1] # 0

\* $zero was the destination of an ADD of two non-zero operands
C31_WitnessAdd ==
    /\ execOp.op = "ADD"
    /\ execOp.dest = 0
    /\ execOp.a > 0
    /\ execOp.b > 0
    /\ ~cpu.raised

(***************************************************************************)
(* The coprocessor, checked under SpecGte                                  *)
(***************************************************************************)

SpecGte == Init /\ [][GteNext]_vars

\* the divisions of the last RTPT
Divisions == {gteOp.divs[i] : i \in DOMAIN gteOp.divs}

\* C32: for every division of a = H by b = SZ: if 2 * b <= a the result is
\* 0x1FFFF; otherwise the index of the reciprocal lookup lies within the
\* 257-entry table (0..256); and the result never exceeds 0x1FFFF.
C32_DivisionInTable ==
    \A q \in Divisions :
       /\ 2 * q.b <= q.a => q.n = 131071
       /\ 2 * q.b > q.a => q.index \in 0..(TableSize - 1)
       /\ q.n <= 131071

\* C33: after RTPT, MAC1..MAC3 are the accumulated sums of the last vector
\* shifted right by 12 when bit 19 (sf) of the command is set and by 0 when
\* it is clear.
C33_MacShiftedBySf ==
    gteOp.op = "RTPT" /\ ~gteAborted =>
        \A k \in 1..3 :
           gte.mac[k] = sar(gteOp.sums[k],
                            IF Bit(gteOp.cmd, 19) THEN 12 ELSE 0)

(***************************************************************************)
(* The sound unit, checked under SpecSpu; SpecSpuLive adds that the step   *)
(* event, which the scheduler fires every SPU_RATE cycles, keeps firing    *)
(***************************************************************************)

SpecSpu == Init /\ [][SpuNext]_vars

SpecSpuLive == Init /\ [][SpuNext]_vars /\ WF_vars(SpuStep)

\* C34: the ADSR volume of every voice is within 0..0x7FFF in every state,
\* after a 16-bit write to ADSRVOL as well as after a step of the envelope.
C34_VolumeInRange ==
    \A i \in Voices : spu.voices[i].adsrvol \in 0..32767

\* voice i plays (it is on, its pitch is not 0, the unit is enabled and not
\* muted) and is in the release phase
Releasing(i) ==
    /\ spu.spuen
    /\ spu.unmute
    /\ spu.voices[i].on
    /\ spu.voices[i].pitch # 0
    /\ spu.voices[i].adsr = Release

\* C40: a playing voice that KOFF has put into the release phase reaches
\* volume 0 and the phase Off after finitely many steps, unless the program
\* stops it playing or keys it on again first.
C40_ReleaseEnds ==
    (Releasing(0) /\ spuOp.op = "write" /\ spuOp.addr = KOFF + 2)
        ~> \/ spu.voices[0].adsr = Off /\ spu.voices[0].adsrvol = 0
           \/ ~Releasing(0) /\ spu.voices[0].adsr # Off

(***************************************************************************)
(* Claims about the start of a transfer, checked under SpecXfer, in which  *)
(* no transfer-end event fires: CHCR.str stays set from the first start    *)
(***************************************************************************)

\* channel c has been started and its transfer-end event has not fired
Started(c) == chcrStr[c] /\ transferEnds[c] > 0

\* C35: while a channel is started and its transfer-end event has not
\* fired, no write to DPCR or CHCR executes a second transfer of it: no
\* second transfer-end event is scheduled and no transfer is entered again.
C35_NoSecondTransfer ==
    [][\A c \in Channels :
          Started(c) =>
              /\ transferEnds'[c] = transferEnds[c]
              /\ dmaXfer'.chn # c]_vars

\* the GPU channel is set up for a linked list and started, and only its
\* enable bit in DPCR is missing: the next write to DPCR runs the list
ListArmed ==
    /\ Alive
    /\ chcrStr[ChnGPU]
    /\ channels[ChnGPU].mod = LinkedList
    /\ channels[ChnGPU].dir
    /\ ~channels[ChnGPU].dec
    /\ channels[ChnGPU].drq \/ channels[ChnGPU].fst
    /\ ~cde(dpcr, ChnGPU)

\* the walk of the list from the channel's MADR over the RAM as it is
ListWalk ==
    linkedList([Xfer(ChnGPU, 0) EXCEPT !.chn = channels[ChnGPU]], MaxNodes)

\* the walk has come to a node a second time: the RAM is only read by it,
\* so it comes to it again and again
Revisits(t) ==
    \E i \in 1..Len(t.nodes) : \E j \in 1..Len(t.nodes) :
        i < j /\ t.nodes[i][1] = t.nodes[j][1]

\* C36: a linked-list transfer of the GPU channel terminates and returns
\* to the CPU for any contents of the RAM, also when the next pointers of
\* the list form a cycle in which no header has bit 23 set.
C36_ListTerminates ==
    ListArmed => ~(ListWalk.hung /\ Revisits(ListWalk))

(***************************************************************************)
(* The two copies, checked under SpecCopy: the command streams of SpecGpu  *)
(* with writes to GP0 during a readback and reads of GPUREAD during an     *)
(* upload                                                                  *)
(***************************************************************************)

CopyNext == GpuNext \/ GpuWriteInReadback \/ GpuReadInUpload

SpecCopy == Init /\ [][CopyNext]_vars

\* a VRAM->CPU copy is being read back; a CPU->VRAM copy is being written
Readback == gpu.state = "CopyRectangle" /\ gpuStream.owed > 0

Upload == gpu.state = "CopyRectangle" /\ gpuStream.owed = 0

\* C37: while a VRAM->CPU readback is in progress, a word written to GP0
\* writes nothing to VRAM and leaves the number of words left to read as it
\* is; the remaining-word count of a CPU->VRAM upload is decremented only
\* by writes to GP0, never by reads of GPUREAD.
C37_CopiesApart ==
    [][/\ Readback /\ gpuOp'.op = "gp0InReadback" =>
              vram' = vram /\ gpu'.argCount = gpu.argCount
       /\ Upload /\ gpu'.argCount # gpu.argCount => gpuOp'.op = "gp0"]_vars

\* the opcodes that draw Gouraud-shaded or textured triangles: 0x2C, 0x30,
\* 0x38 and 0x3C
InterpolatingCmds == {44, 48, 56, 60}

\* C38: drawing a Gouraud-shaded or textured triangle never divides by
\* zero: no pixel's colour or texture coordinate is computed by dividing by
\* a signed area of 0
C38_NoDivisionByZeroArea ==
    gpuOp.cmd \in InterpolatingCmds /\ gpuOp.runs = 1 => ~gpuOp.divZero
(***************************************************************************)
(* The controller port with the ACKs delivered                             *)
(***************************************************************************)

AckNext == SioNext \/ SioDrain

SpecAck == Init /\ [][AckNext]_vars

====
